---- MODULE Spec2Model ----
(***************************************************************************)
(* Image activation pipeline: the registry (pkg/db), the five transition   *)
(* handlers (pkg/fsm), the thin-device manager (pkg/devicemapper), the     *)
(* archive extractor and the security validator (pkg/security).            *)
(*                                                                         *)
(* Four specifications share the variables:                                *)
(*   Spec         the pipeline: runs of the state machine over the         *)
(*                registry and the thin pool, one action per handler       *)
(*                invocation;                                              *)
(*   SpecAlloc    concurrent Repository.AllocateNextDeviceID calls, one    *)
(*                action per statement of the transaction;                 *)
(*   SpecExtract  ExtractTarball over an archive, one action per entry;    *)
(*   SpecComplete handleComplete on a registry and a pool left behind by   *)
(*                earlier processes.                                       *)
(***************************************************************************)
EXTENDS Integers, Sequences, FiniteSets, TLC

VARIABLES
    \* ---- configuration (read once at start-up) ----
    platform,        \* which devicemapper.Manager the process holds
    maxRetries,      \* Machine.maxRetries (Config.FSMMaxRetries)
    \* ---- registry (SQLite) ----
    images,          \* rows of table images
    image_seq,       \* AUTOINCREMENT counter of images.id
    next_device_id,  \* device_sequence.next_device_id
    \* ---- kernel thin pool, as the manager's commands see it ----
    pool,
    \* ---- state-machine engine: one run per key ----
    run,
    starts,          \* activations started so far
    faults,          \* failures the environment has injected so far
    \* ---- history of the pipeline ----
    last,            \* what the last handler invocation did, and for which key
    allocated,       \* ids AllocateNextDeviceID has returned
    firstReady,      \* per key: the row's device triple when a run first ended ready
    refetch,         \* keys whose object was downloaded again after firstReady was set
    \* ---- the process: killed and restarted in SpecResume ----
    proc,
    \* ---- SpecAlloc: concurrent allocator transactions;
    \*      SpecRace: concurrent check_db invocations ----
    tx,
    \* ---- SpecExtract: one extraction ----
    ex

vars == <<proc, platform, maxRetries, images, image_seq, next_device_id, pool, run,
          starts, faults, last, allocated, firstReady, refetch, tx, ex>>

(***************************************************************************)
(* Bounds of the model.                                                    *)
(***************************************************************************)
MaxStarts == 2          \* activations started in one behaviour
MaxFaults == 1          \* calls the environment makes fail in one behaviour
MaxRetriesCfg == 1      \* max_retries ranges over 0..MaxRetriesCfg
MaxCallers == 3         \* concurrent AllocateNextDeviceID callers
MaxEntries == 2         \* entries of an archive

\* object keys: two prefixes, one basename
Keys == {<<"images", "a.tar">>, <<"mirror", "a.tar">>}

(***************************************************************************)
(* pkg/db: schema and status constants.                                    *)
(***************************************************************************)
StatusPending == "pending"
StatusDownloading == "downloading"
StatusReady == "ready"
StatusFailed == "failed"

\* GetByS3Key returns nil for an absent key; ids start at 1, so id 0 is nil.
NilImage ==
    [id |-> 0, s3_key |-> <<>>, sha256 |-> <<>>, status |-> "",
     device_path |-> <<>>, base_device_id |-> 0, snapshot_id |-> 0,
     error_message |-> ""]

GetByS3Key(imgs, key) ==
    IF \E r \in imgs : r.s3_key = key
    THEN CHOOSE r \in imgs : r.s3_key = key
    ELSE NilImage

\* Create on a table whose s3_key column is not UNIQUE.
Create_NoUnique(imgs, seq, img) ==
    [err |-> FALSE,
     images |-> imgs \cup {[img EXCEPT !.id = seq + 1]},
     seq |-> seq + 1, id |-> seq + 1]

\* Create that does not hand the new id back to its caller.
Create_NoId(imgs, seq, img) ==
    IF \E r \in imgs : r.s3_key = img.s3_key
    THEN [err |-> TRUE, images |-> imgs, seq |-> seq, id |-> 0]
    ELSE [err |-> FALSE,
          images |-> imgs \cup {[img EXCEPT !.id = seq + 1]},
          seq |-> seq + 1, id |-> 0]

\* INSERT: s3_key is UNIQUE; the id is the next AUTOINCREMENT value.
Create(imgs, seq, img) ==
    IF \E r \in imgs : r.s3_key = img.s3_key
    THEN [err |-> TRUE, images |-> imgs, seq |-> seq, id |-> 0]
    ELSE [err |-> FALSE,
          images |-> imgs \cup {[img EXCEPT !.id = seq + 1]},
          seq |-> seq + 1, id |-> seq + 1]

\* Update with its WHERE clause dropped: every row takes the new columns.
Update_NoWhere(imgs, img) ==
    [err |-> imgs = {},
     images |-> {[img EXCEPT !.id = r.id, !.s3_key = r.s3_key] : r \in imgs}]

\* CHECK(status IN ('pending', 'downloading', 'ready', 'failed'))
StatusAllowed(status) ==
    status \in {StatusPending, StatusDownloading, StatusReady, StatusFailed}

\* UPDATE ... WHERE id = ?: every column but id and s3_key; zero rows is an
\* error, and so is a status the schema's CHECK refuses.
Update(imgs, img) ==
    IF StatusAllowed(img.status) /\ \E r \in imgs : r.id = img.id
    THEN [err |-> FALSE,
          images |-> {IF r.id = img.id
                      THEN [img EXCEPT !.s3_key = r.s3_key]
                      ELSE r : r \in imgs}]
    ELSE [err |-> TRUE, images |-> imgs]

\* UpdateStatus that writes the status column only.
UpdateStatus_StatusOnly(imgs, id, status, msg) ==
    {IF r.id = id THEN [r EXCEPT !.status = status, !.error_message = ""] ELSE r
       : r \in imgs}

\* UPDATE images SET status, error_message WHERE id = ?: rows affected is not read.
UpdateStatus(imgs, id, status, msg) ==
    {IF r.id = id THEN [r EXCEPT !.status = status, !.error_message = msg] ELSE r
       : r \in imgs}

AllocateNextDeviceID_Skip(seq) == [id |-> seq + 1, next |-> seq + 2]

\* The whole transaction of AllocateNextDeviceID, run alone.
AllocateNextDeviceID(seq) == [id |-> seq, next |-> seq + 1]

(***************************************************************************)
(* pkg/devicemapper.  The pool is what dmsetup, mount and umount act on:   *)
(*   thin   ids that exist in the thin pool's metadata                     *)
(*   nodes  activated mapper nodes, <<prefix, id>> for /dev/mapper/<prefix>-<id> *)
(*   mounts mounted mount points, each with the node mounted there         *)
(* A command fails when the kernel refuses it in that pool state, or when  *)
(* the environment makes it fail (the fault argument names the command).   *)
(***************************************************************************)
BaseNode(id) == <<"flyio", id>>
SnapshotNode(id) == <<"flyio-snapshot", id>>
DevicePathOf(node) == <<"/dev/mapper">> \o node
MountPathOf(id) == <<"mounts", id>>

EmptyPool == [thin |-> {}, nodes |-> {}, mounts |-> {}]

\* A thin id is open while an activated node maps it.
ThinOpen(p, id) == BaseNode(id) \in p.nodes \/ SnapshotNode(id) \in p.nodes
NodeMounted(p, node) == \E m \in p.mounts : m.node = node

\* A delete that also tears down the id's open nodes.
PoolDelete_Force(p, id) ==
    [p EXCEPT !.thin = @ \ {id}, !.nodes = @ \ {BaseNode(id), SnapshotNode(id)}]

\* dmsetup message <pool> 0 "delete <id>": refused for an absent or an open id.
\* Both managers ignore its exit status.
PoolDelete(p, id) ==
    IF id \in p.thin /\ ~ThinOpen(p, id) THEN [p EXCEPT !.thin = @ \ {id}] ELSE p

ErrNotSupported == "devicemapper not supported on GOOS"

\* The test with every message taken for a platform limitation.
ContainsNotSupported_Any(msg) == TRUE

\* strings.Contains(err.Error(), "not supported")
ContainsNotSupported(msg) == msg = ErrNotSupported

\* LinuxManager.CreateDevice: delete, create_thin, dmsetup create, mkfs.ext4.
LinuxCreateDevice(p, id, fault) ==
    LET p1 == PoolDelete(p, id)
        p2 == [p1 EXCEPT !.thin = @ \cup {id}]
        p3 == [p2 EXCEPT !.nodes = @ \cup {BaseNode(id)}]
    IN  IF fault = "create_thin" \/ id \in p1.thin
        THEN [err |-> "failed to create thin device metadata", pool |-> p1, path |-> <<>>]
        ELSE IF fault = "activate" \/ BaseNode(id) \in p2.nodes
        THEN [err |-> "failed to activate device", pool |-> p2, path |-> <<>>]
        ELSE IF fault = "mkfs"
        THEN [err |-> "failed to format device", pool |-> p3, path |-> <<>>]
        ELSE [err |-> "", pool |-> p3, path |-> DevicePathOf(BaseNode(id))]

\* LinuxManager.CreateSnapshot: delete, create_snap, dmsetup create.
LinuxCreateSnapshot(p, base, snap, fault) ==
    LET p1 == PoolDelete(p, snap)
        p2 == [p1 EXCEPT !.thin = @ \cup {snap}]
        p3 == [p2 EXCEPT !.nodes = @ \cup {SnapshotNode(snap)}]
    IN  IF fault = "create_snap" \/ snap \in p1.thin \/ base \notin p1.thin
        THEN [err |-> "failed to create snapshot metadata", pool |-> p1, snapshot_id |-> 0]
        ELSE IF fault = "activate" \/ SnapshotNode(snap) \in p2.nodes
        THEN [err |-> "failed to activate snapshot", pool |-> p2, snapshot_id |-> 0]
        ELSE [err |-> "", pool |-> p3, snapshot_id |-> snap]

\* LinuxManager.MountDevice: mount <devicePath> <mountPath>.
LinuxMountDevice(p, node, mountPath, fault) ==
    IF fault = "mount" \/ node \notin p.nodes
    THEN [err |-> "failed to mount device", pool |-> p]
    ELSE [err |-> "",
          pool |-> [p EXCEPT !.mounts = @ \cup {[path |-> mountPath, node |-> node]}]]

\* LinuxManager.UnmountDevice: umount <mountPath>.
LinuxUnmountDevice(p, mountPath, fault) ==
    IF fault \/ ~(\E m \in p.mounts : m.path = mountPath)
    THEN [err |-> "failed to unmount device", pool |-> p]
    ELSE [err |-> "", pool |-> [p EXCEPT !.mounts = {m \in @ : m.path # mountPath}]]

\* LinuxManager.DeleteDevice: dmsetup remove flyio-<id>; refused for an absent
\* or a mounted node.  The thin id stays in the pool.
LinuxDeleteDevice(p, id, fault) ==
    IF fault \/ BaseNode(id) \notin p.nodes \/ NodeMounted(p, BaseNode(id))
    THEN [err |-> "failed to remove device", pool |-> p]
    ELSE [err |-> "", pool |-> [p EXCEPT !.nodes = @ \ {BaseNode(id)}]]

\* The Manager interface, dispatched on the variant the process holds.  Every
\* operation of StubManager returns "devicemapper not supported on <GOOS>".
CreateDevice_NoStub(plat, p, id, fault) == LinuxCreateDevice(p, id, fault)

CreateDevice(plat, p, id, fault) ==
    IF plat = "stub" THEN [err |-> ErrNotSupported, pool |-> p, path |-> <<>>]
    ELSE LinuxCreateDevice(p, id, fault)

CreateSnapshot(plat, p, base, snap, fault) ==
    IF plat = "stub" THEN [err |-> ErrNotSupported, pool |-> p, snapshot_id |-> 0]
    ELSE LinuxCreateSnapshot(p, base, snap, fault)

MountDevice(plat, p, node, mountPath, fault) ==
    IF plat = "stub" THEN [err |-> ErrNotSupported, pool |-> p]
    ELSE LinuxMountDevice(p, node, mountPath, fault)

UnmountDevice(plat, p, mountPath, fault) ==
    IF plat = "stub" THEN [err |-> ErrNotSupported, pool |-> p]
    ELSE LinuxUnmountDevice(p, mountPath, fault)

DeleteDevice(plat, p, id, fault) ==
    IF plat = "stub" THEN [err |-> ErrNotSupported, pool |-> p]
    ELSE LinuxDeleteDevice(p, id, fault)

(***************************************************************************)
(* pkg/security: the limits the pipeline's validate state consults.        *)
(***************************************************************************)
MaxFileSize == 2        \* Validator.maxFileSize, in units of the model

ValidateFileSize(size) ==
    IF size > MaxFileSize THEN "security: file size exceeds max" ELSE ""

(***************************************************************************)
(* pkg/fsm: request, response and the engine's bookkeeping of one run.     *)
(***************************************************************************)
StateCheckDB == "check_db"
StateDownload == "download"
StateValidate == "validate"
StateCreateDevice == "create_device"
StateComplete == "complete"
StateFailed == "failed"
StateDone == "done"     \* the run has left the last transition of the chain
StateIdle == "idle"     \* no run of this key was started yet

EmptyResponse ==
    [ImageID |-> 0, SHA256 |-> <<>>, DownloadPath |-> <<>>, DownloadSize |-> 0,
     ExtractedPath |-> <<>>, DevicePath |-> <<>>, SnapshotID |-> 0,
     Status |-> "", ErrorMessage |-> ""]

\* Register: Start(check_db).To(download).To(validate).To(create_device)
\* .To(complete).End(failed); a run that leaves complete is finished.
NextState(state) ==
    CASE state = StateCheckDB -> StateDownload
      [] state = StateDownload -> StateValidate
      [] state = StateValidate -> StateCreateDevice
      [] state = StateCreateDevice -> StateComplete
      [] state = StateComplete -> StateDone

\* filepath.Base of the object key
Base(key) == key[Len(key)]
\* the hex digest the object-store client computes over the object's bytes
Digest(key) == <<"sha256">> \o key

\* A retry test that never ends a run.
RetryLimitReached_Never(retryCount, max) == FALSE

\* "if retryCount := fsm.RetryFromContext(ctx); retryCount >= uint64(m.maxRetries)"
RetryLimitReached(retryCount, max) == retryCount >= max

ErrMaxRetries == "max retries exceeded"

\* What one handler invocation starts from: nothing changed, success.
Begin(k) ==
    [result |-> "ok", reason |-> "", resp |-> run[k].resp,
     images |-> images, image_seq |-> image_seq,
     next_device_id |-> next_device_id, pool |-> pool,
     ids |-> {}, dm |-> {}, cdErr |-> "", snapErr |-> "", fetched |-> FALSE]

Abort(o, why) == [o EXCEPT !.result = "abort", !.reason = why]
Retry(o, why) == [o EXCEPT !.result = "retry", !.reason = why]

\* handleCheckDB
handleCheckDB(k, fault) ==
    LET o == Begin(k)
        img == GetByS3Key(images, k)
        c == Create(images, image_seq,
                    [NilImage EXCEPT !.s3_key = k, !.sha256 = <<>>,
                                     !.status = StatusPending])
    IN  IF RetryLimitReached(run[k].retry, maxRetries)
        THEN Abort(o, ErrMaxRetries)
        ELSE IF fault = "get"
        THEN Abort(o, "database error")
        ELSE IF img # NilImage
        THEN [o EXCEPT !.resp.ImageID = img.id, !.resp.SHA256 = img.sha256,
                       !.resp.Status = img.status]
        ELSE IF fault = "create" \/ c.err
        THEN Retry(o, "failed to create image record")
        ELSE [o EXCEPT !.images = c.images, !.image_seq = c.seq,
                       !.resp.ImageID = c.id]

\* handleDownload; size is the size of the object the store returns
\* errors.Wrap(err, "failed to download from S3") around Client.Download's error
ErrS3NotFound == "failed to download from S3: failed to get object from S3: NoSuchKey"
ErrS3Network == "failed to download from S3: failed to download file"

handleDownload(k, fault, size) ==
    LET o == Begin(k)
        o1 == [o EXCEPT !.images = UpdateStatus(images, o.resp.ImageID,
                                                StatusDownloading, "")]
        o2 == [o1 EXCEPT !.fetched = TRUE]
        o3 == [o2 EXCEPT !.resp.SHA256 = Digest(k),
                         !.resp.DownloadPath = <<"downloads", Base(k)>>,
                         !.resp.DownloadSize = size]
        img == GetByS3Key(o3.images, k)
        u == Update(o3.images, [img EXCEPT !.sha256 = Digest(k)])
    IN  IF RetryLimitReached(run[k].retry, maxRetries)
        THEN Abort(o, ErrMaxRetries)
        ELSE IF fault = "status"
        THEN Retry(o, "failed to update status")
        ELSE IF fault = "mkdir"
        THEN Retry(o1, "failed to create download dir")
        ELSE IF fault = "s3_not_found"
        THEN Retry(o2, ErrS3NotFound)
        ELSE IF fault = "s3_network"
        THEN Retry(o2, ErrS3Network)
        ELSE IF img = NilImage
        THEN o3
        ELSE IF fault = "update" \/ u.err
        THEN Retry(o3, "failed to update image")
        ELSE [o3 EXCEPT !.images = u.images]

\* handleValidate; extractErr is what ExtractTarball returns for the archive
handleValidate(k, fault, extractErr) ==
    LET o == Begin(k)
        sizeErr == ValidateFileSize(o.resp.DownloadSize)
    IN  IF RetryLimitReached(run[k].retry, maxRetries)
        THEN Abort(o, ErrMaxRetries)
        ELSE IF sizeErr # ""
        THEN Abort([o EXCEPT !.images = UpdateStatus(images, o.resp.ImageID,
                                                     StatusFailed, sizeErr)],
                   sizeErr)
        ELSE IF fault = "rmdir"
        THEN Retry(o, "failed to clean extract dir")
        ELSE IF fault = "mkdir"
        THEN Retry(o, "failed to create extract dir")
        ELSE IF extractErr # ""
        THEN Abort([o EXCEPT !.images = UpdateStatus(images, o.resp.ImageID,
                                                     StatusFailed, extractErr)],
                   "tar extraction failed")
        ELSE [o EXCEPT !.resp.ExtractedPath = <<"extracted", Base(k)>>]

\* handleCreateDevice; fault names the call the environment fails, clean the
\* teardown calls (of UnmountDevice, DeleteDevice) it fails
handleCreateDevice(k, fault, clean) ==
    LET o == Begin(k)
        a == AllocateNextDeviceID(next_device_id)
        id == a.id
        mountPath == MountPathOf(id)
        o1 == [o EXCEPT !.next_device_id = a.next, !.ids = {id}]
        cd == CreateDevice(platform, pool, id, fault)
        o2 == [o1 EXCEPT !.pool = cd.pool, !.dm = {"CreateDevice"},
                         !.cdErr = cd.err]
        \* teardown after a failed mkdir or mount: DeleteDevice
        del2 == DeleteDevice(platform, o2.pool, id, "delete" \in clean)
        mt == MountDevice(platform, o2.pool, BaseNode(id), mountPath, fault)
        o3 == [o2 EXCEPT !.pool = mt.pool, !.dm = @ \cup {"MountDevice"}]
        \* teardown after a failed copy: UnmountDevice, then DeleteDevice
        um3 == UnmountDevice(platform, o3.pool, mountPath, "unmount" \in clean)
        del3 == DeleteDevice(platform, um3.pool, id, "delete" \in clean)
        um == UnmountDevice(platform, o3.pool, mountPath, fault = "unmount")
        o4 == [o3 EXCEPT !.pool = um.pool, !.dm = @ \cup {"UnmountDevice"}]
        o5 == [o4 EXCEPT !.resp.DevicePath = cd.path]
        img == GetByS3Key(o5.images, k)
        u == Update(o5.images, [img EXCEPT !.base_device_id = id,
                                           !.device_path = cd.path])
        o6 == IF img = NilImage THEN o5 ELSE [o5 EXCEPT !.images = u.images]
    IN  IF RetryLimitReached(run[k].retry, maxRetries)
        THEN Abort(o, ErrMaxRetries)
        ELSE IF platform = "none"
        THEN o
        ELSE IF fault = "alloc"
        THEN Retry(o, "failed to allocate base device ID")
        ELSE IF cd.err # ""
        THEN [o2 EXCEPT !.resp.ErrorMessage = "devicemapper warning"]
        ELSE IF fault = "mkdir"
        THEN Retry([o2 EXCEPT !.pool = del2.pool, !.dm = @ \cup {"DeleteDevice"}],
                   "failed to create mount dir")
        ELSE IF mt.err # ""
        THEN Retry([o3 EXCEPT !.pool = del2.pool, !.dm = @ \cup {"DeleteDevice"}],
                   "failed to mount device")
        \* copyDir walks resp.ExtractedPath; an empty path cannot be walked
        ELSE IF fault = "copy" \/ o.resp.ExtractedPath = <<>>
        THEN Abort([o3 EXCEPT !.images = UpdateStatus(images, o.resp.ImageID,
                                                      StatusFailed, "copy error"),
                              !.pool = del3.pool,
                              !.dm = @ \cup {"UnmountDevice", "DeleteDevice"}],
                   "copy to device failed")
        ELSE IF um.err # ""
        THEN Retry(o4, "failed to unmount device")
        ELSE IF img # NilImage /\ (fault = "update" \/ u.err)
        THEN Retry(o5, "failed to update image")
        ELSE [o6 EXCEPT !.resp.ExtractedPath = mountPath]

\* handleComplete
\* snapshotID := img.SnapshotID always found to be zero
ReuseSnapshotID_Never(img) == FALSE

\* snapshotID := img.SnapshotID; if snapshotID == 0 { allocate } else { reuse }
ReuseSnapshotID(img) == img.snapshot_id # 0

handleComplete(k, fault) ==
    LET o == Begin(k)
        img == GetByS3Key(images, k)
        reuse == ReuseSnapshotID(img)
        a == AllocateNextDeviceID(next_device_id)
        snapshotID == IF reuse THEN img.snapshot_id ELSE a.id
        o1 == IF reuse THEN o
              ELSE [o EXCEPT !.next_device_id = a.next, !.ids = {a.id}]
        cs == CreateSnapshot(platform, pool, img.base_device_id, snapshotID, fault)
        o2 == [o1 EXCEPT !.pool = cs.pool, !.dm = {"CreateSnapshot"},
                         !.snapErr = cs.err]
        \* snapshot created: persist it on the row
        u == Update(o2.images, [img EXCEPT !.snapshot_id = cs.snapshot_id])
        o3 == [o2 EXCEPT !.resp.SnapshotID = cs.snapshot_id,
                         !.resp.DevicePath = img.device_path]
        \* the state in which the handler reaches "Mark image as ready"
        om == IF platform # "none" /\ img.device_path # <<>>
              THEN IF cs.err # ""
                   THEN [o2 EXCEPT !.resp.ErrorMessage = "snapshot unavailable"]
                   ELSE [o3 EXCEPT !.images = u.images]
              ELSE o
    IN  IF RetryLimitReached(run[k].retry, maxRetries)
        THEN Abort(o, ErrMaxRetries)
        ELSE IF fault = "get"
        THEN Abort(o, "failed to load image")
        ELSE IF img = NilImage
        THEN Abort(o, "image not found in database")
        ELSE IF platform # "none" /\ img.device_path # <<>> /\ ~reuse /\ fault = "alloc"
        THEN Abort([o EXCEPT !.images = UpdateStatus(images, img.id, StatusFailed,
                                                     "snapshot ID allocation failed")],
                   "snapshot ID allocation failed")
        ELSE IF platform # "none" /\ img.device_path # <<>> /\ cs.err # ""
                /\ ~ContainsNotSupported(cs.err)
        THEN Abort([o2 EXCEPT !.images = UpdateStatus(images, img.id, StatusFailed,
                                                      "snapshot creation failed")],
                   "snapshot creation failed")
        ELSE IF platform # "none" /\ img.device_path # <<>> /\ cs.err = ""
                /\ (fault = "update" \/ u.err)
        THEN Retry(o3, "failed to update image")
        ELSE IF fault = "status"
        THEN Retry(om, "failed to update status")
        ELSE [om EXCEPT !.images = UpdateStatus(om.images, om.resp.ImageID,
                                                StatusReady, ""),
                        !.resp.Status = StatusReady]

(***************************************************************************)
(* What the environment decides in one handler invocation: the call it     *)
(* makes fail ("none": no call fails), the object's size, the extractor's  *)
(* verdict on the archive.  Registry faults are injected at the calls      *)
(* whose error the handler inspects; the status writes whose result the    *)
(* handler discards run against an available registry.                     *)
(***************************************************************************)
CheckDBFaults == {"none", "get", "create"}
DownloadFaults == {"none", "status", "mkdir", "s3_not_found", "s3_network", "update"}
DownloadSizes == {1, MaxFileSize + 1}
ValidateFaults == {"none", "rmdir", "mkdir"}
ExtractErrors == {"", "invalid path in tar: security: path traversal detected",
                  "security: compression ratio exceeds max"}
CreateDeviceFaults == {"none", "alloc", "create_thin", "activate", "mkfs", "mkdir",
                       "mount", "copy", "unmount", "update"}
TeardownFaults == SUBSET {"unmount", "delete"}
\* the failures after which handleCreateDevice tears the device down
TeardownPaths == {"mkdir", "mount", "copy"}
CompleteFaults == {"none", "get", "alloc", "create_snap", "activate", "update",
                   "status"}

DeviceTriple(img) == <<img.device_path, img.base_device_id, img.snapshot_id>>

\* The process is running; the engine has resumed no run.
NoProc == [alive |-> TRUE, crashes |-> 0, resumedAt |-> {}]

NoCall ==
    [key |-> <<>>, handler |-> "", result |-> "", reason |-> "", attempt |-> 0, ids |-> {},
     dm |-> {}, cdErr |-> "", snapErr |-> "", fetched |-> FALSE]

NoTx == <<>>
NoEx == <<>>

\* The engine's step on a handler's return: success advances, an ordinary
\* error re-invokes the handler with the retry count raised, Abort ends the
\* run in failed.  The registry, the sequence and the pool are as the handler
\* left them.
Return(k, o, cost) ==
    LET state == run[k].state
        to == CASE o.result = "ok" -> NextState(state)
                [] o.result = "retry" -> state
                [] o.result = "abort" -> StateFailed
        row == GetByS3Key(o.images, k)
        endsReady == to = StateDone /\ row.status = StatusReady
    IN  /\ proc.alive
        /\ faults + cost <= MaxFaults
        /\ faults' = faults + cost
        /\ run' = [run EXCEPT ![k] =
                     [state |-> to,
                      retry |-> IF o.result = "retry" THEN run[k].retry + 1 ELSE 0,
                      \* "return nil, fsm.Abort(...)": an aborted run has no response
                      resp |-> IF o.result = "abort" THEN EmptyResponse ELSE o.resp]]
        /\ images' = o.images
        /\ image_seq' = o.image_seq
        /\ next_device_id' = o.next_device_id
        /\ pool' = o.pool
        /\ allocated' = allocated \cup o.ids
        /\ last' = [key |-> k, handler |-> state, result |-> o.result,
                    reason |-> o.reason, attempt |-> run[k].retry, ids |-> o.ids,
                    dm |-> o.dm, cdErr |-> o.cdErr, snapErr |-> o.snapErr,
                    fetched |-> o.fetched]
        /\ firstReady' = IF endsReady /\ firstReady[k] = <<>>
                         THEN [firstReady EXCEPT ![k] = <<DeviceTriple(row)>>]
                         ELSE firstReady
        /\ refetch' = IF o.fetched /\ firstReady[k] # <<>>
                      THEN refetch \cup {k}
                      ELSE refetch
        /\ UNCHANGED <<proc, platform, maxRetries, starts, tx, ex>>

\* The keys are interchangeable, so the first activation is of FirstKey.
FirstKey == <<"images", "a.tar">>

\* runFetch: start(ctx, imageKey, fsm.NewRequest(req, &ImageResponse{}))
Start(k) ==
    /\ proc.alive
    /\ run[k].state \in {StateIdle, StateDone, StateFailed}
    /\ starts = 0 => k = FirstKey
    /\ starts < MaxStarts
    /\ starts' = starts + 1
    /\ run' = [run EXCEPT ![k] =
                 [state |-> StateCheckDB, retry |-> 0, resp |-> EmptyResponse]]
    /\ last' = NoCall
    /\ UNCHANGED <<proc, platform, maxRetries, images, image_seq, next_device_id, pool,
                   faults, allocated, firstReady, refetch, tx, ex>>

\* A fault is injected only where it changes what the handler does; each one
\* counts against MaxFaults.
Cost(fault, clean, o, plain) ==
    IF o = plain THEN 0 ELSE (IF fault = "none" THEN 0 ELSE 1) + Cardinality(clean)

Effective(fault, clean, o, plain) == (fault = "none" /\ clean = {}) \/ o # plain

CheckDB(k) ==
    /\ run[k].state = StateCheckDB
    /\ \E plain \in {handleCheckDB(k, "none")} :
          \E fault \in CheckDBFaults :
              \E o \in {handleCheckDB(k, fault)} :
                  /\ Effective(fault, {}, o, plain)
                  /\ Return(k, o, Cost(fault, {}, o, plain))

Download(k) ==
    /\ run[k].state = StateDownload
    /\ \E size \in DownloadSizes :
          \E plain \in {handleDownload(k, "none", size)} :
              \E fault \in DownloadFaults :
                  \E o \in {handleDownload(k, fault, size)} :
                      /\ Effective(fault, {}, o, plain)
                      /\ Return(k, o, Cost(fault, {}, o, plain))

Validate(k) ==
    /\ run[k].state = StateValidate
    /\ \E extractErr \in ExtractErrors :
          \E plain \in {handleValidate(k, "none", extractErr)} :
              \E fault \in ValidateFaults :
                  \E o \in {handleValidate(k, fault, extractErr)} :
                      /\ Effective(fault, {}, o, plain)
                      /\ Return(k, o, Cost(fault, {}, o, plain))

CreateDeviceStep(k) ==
    /\ run[k].state = StateCreateDevice
    /\ \E plain \in {handleCreateDevice(k, "none", {})} :
          \E fault \in CreateDeviceFaults :
              \E clean \in (IF fault \in TeardownPaths THEN TeardownFaults ELSE {{}}) :
                  \E o \in {handleCreateDevice(k, fault, clean)} :
                      /\ Effective(fault, clean, o, plain)
                      /\ Return(k, o, Cost(fault, clean, o, plain))

Complete(k) ==
    /\ run[k].state = StateComplete
    /\ \E plain \in {handleComplete(k, "none")} :
          \E fault \in CompleteFaults :
              \E o \in {handleComplete(k, fault)} :
                  /\ Effective(fault, {}, o, plain)
                  /\ Return(k, o, Cost(fault, {}, o, plain))

Init ==
    /\ platform \in {"linux", "stub", "none"}
    /\ maxRetries \in 0..MaxRetriesCfg
    /\ images = {}
    /\ image_seq = 0
    /\ next_device_id = 1
    /\ pool = EmptyPool
    /\ run = [k \in Keys |-> [state |-> StateIdle, retry |-> 0, resp |-> EmptyResponse]]
    /\ starts = 0
    /\ faults = 0
    /\ proc = NoProc
    /\ last = NoCall
    /\ allocated = {}
    /\ firstReady = [k \in Keys |-> <<>>]
    /\ refetch = {}
    /\ tx = NoTx
    /\ ex = NoEx

Next ==
    \E k \in Keys :
        \/ Start(k)
        \/ CheckDB(k)
        \/ Download(k)
        \/ Validate(k)
        \/ CreateDeviceStep(k)
        \/ Complete(k)

Spec == Init /\ [][Next]_vars

(***************************************************************************)
(* Properties of the pipeline (specification Spec).                        *)
(***************************************************************************)
Row(k) == GetByS3Key(images, k)

\* the id fields of a row that hold an id
IdsOf(r) == {r.base_device_id, r.snapshot_id} \ {0}

\* C1: on the full platform every row with status ready has a non-empty
\* device_path, a base_device_id and a snapshot_id that are not 0, and a
\* snapshot_id different from its base_device_id.
C1_ReadyRowHasDevice ==
    platform = "linux" =>
        \A r \in images :
            r.status = StatusReady =>
                /\ r.device_path # <<>>
                /\ r.base_device_id # 0
                /\ r.snapshot_id # 0
                /\ r.snapshot_id # r.base_device_id

\* C2: once an activation of a key has ended ready, the object is not
\* downloaded again, and when a later activation of the key has ended the
\* row's (device_path, base_device_id, snapshot_id) is what it was then.
C2_SecondActivationIdempotent ==
    \A k \in Keys :
        firstReady[k] # <<>> =>
            /\ k \notin refetch
            /\ run[k].state \in {StateDone, StateFailed} =>
                   DeviceTriple(Row(k)) = firstReady[k][1]

\* C4: every id stored in a row was returned by AllocateNextDeviceID, the two
\* id fields of a row differ, and no id is stored in two rows.
C4_IdsCollisionFree ==
    /\ \A r \in images : IdsOf(r) \subseteq allocated
    /\ \A r \in images :
           r.base_device_id # 0 => r.snapshot_id # r.base_device_id
    /\ \A r1, r2 \in images : r1 # r2 => IdsOf(r1) \cap IdsOf(r2) = {}

\* C4 witness: two ready rows that each hold a base id and a snapshot id.
C4_Witness ==
    /\ \A k \in Keys : Cardinality(IdsOf(Row(k))) = 2
    /\ \A k \in Keys : Row(k).status = StatusReady

\* C7: when a handler has returned abort, the row of the run's key, if there
\* is one, has status failed and a non-empty error_message.
C7_AbortWritesFailed ==
    last.result = "abort" =>
        (Row(last.key) # NilImage =>
            /\ Row(last.key).status = StatusFailed
            /\ Row(last.key).error_message # "")

\* C8: on the full platform, when the manager's CreateDevice has failed with an
\* error other than "not supported", handleCreateDevice returns a retryable
\* error and the run stays in create_device.
C8_CreateDeviceErrorRetries ==
    (/\ platform = "linux"
     /\ last.handler = StateCreateDevice
     /\ last.cdErr # ""
     /\ ~ContainsNotSupported(last.cdErr)) =>
        /\ last.result = "retry"
        /\ run[last.key].state = StateCreateDevice

\* C10: a handler aborts with the max-retries error exactly when its attempt
\* counter is greater than max_retries.
C10_AbortOnlyBeyondMaxRetries ==
    last.handler # "" =>
        ((last.result = "abort" /\ last.reason = ErrMaxRetries)
            <=> last.attempt > maxRetries)

(***************************************************************************)
(* Paths.  A path string is its separator-separated components and whether *)
(* it starts with the separator: "a/../b" is Rel(<<"a", "..", "b">>),      *)
(* "/etc" is AbsPath(<<"etc">>), "." is Rel(<<>>).                         *)
(***************************************************************************)
Rel(parts) == [abs |-> FALSE, parts |-> parts]
AbsPath(parts) == [abs |-> TRUE, parts |-> parts]

\* filepath.IsAbs
IsAbs(p) == p.abs

\* filepath.Clean: drops "." and empty components, lets ".." eat the component
\* before it, drops ".." at the root, keeps leading ".." of a relative path.
RECURSIVE CleanParts(_, _, _)
CleanParts(abs, parts, out) ==
    IF parts = <<>> THEN out
    ELSE LET c == Head(parts)
             rest == Tail(parts)
         IN  IF c = "." \/ c = ""
             THEN CleanParts(abs, rest, out)
             ELSE IF c # ".."
             THEN CleanParts(abs, rest, Append(out, c))
             ELSE IF out # <<>> /\ out[Len(out)] # ".."
             THEN CleanParts(abs, rest, SubSeq(out, 1, Len(out) - 1))
             ELSE IF abs
             THEN CleanParts(abs, rest, out)
             ELSE CleanParts(abs, rest, Append(out, ".."))

Clean(p) == [abs |-> p.abs, parts |-> CleanParts(p.abs, p.parts, <<>>)]

\* filepath.Join(a, b): Clean(a + "/" + b)
Join(a, b) == Clean([abs |-> a.abs, parts |-> a.parts \o b.parts])

\* filepath.Dir: everything before the last separator, cleaned
Dir(p) ==
    IF p.parts = <<>> THEN p
    ELSE Clean([p EXCEPT !.parts = SubSeq(@, 1, Len(@) - 1)])

\* component names that begin with the two characters ".."
DotDotNames == {"..", "..a"}

\* strings.HasPrefix(clean, "..")
HasDotDotPrefix(clean) ==
    ~clean.abs /\ clean.parts # <<>> /\ clean.parts[1] \in DotDotNames

(***************************************************************************)
(* pkg/security: Validator.                                                *)
(***************************************************************************)
MaxTotalSize == 3           \* Validator.maxTotalSize, in units of the model
MaxCompressionRatio == 1    \* Validator.maxCompressionRatio

ErrAbsolutePath == "security: absolute path not allowed"
ErrPathTraversal == "security: path traversal detected"
ErrSymlinkTraversal == "security: path traversal detected: symlink"

\* ValidatePath that lets every name through.
ValidatePath_AcceptAll(tarPath) == ""

ValidatePath(tarPath) ==
    IF IsAbs(tarPath) THEN ErrAbsolutePath
    ELSE IF HasDotDotPrefix(Clean(tarPath)) THEN ErrPathTraversal
    ELSE ""

\* the depth counter over the components of the cleaned path
RECURSIVE Depth(_)
Depth(parts) ==
    IF parts = <<>> THEN 0
    ELSE (IF Head(parts) = ".." THEN -1
          ELSE IF Head(parts) # "" /\ Head(parts) # "." THEN 1
          ELSE 0) + Depth(Tail(parts))

\* ValidateSymlink that refuses every relative target with a ".." in it.
ValidateSymlink_NoDotDot(symlinkPath, targetPath) ==
    IF IsAbs(targetPath) THEN ""
    ELSE IF \E j \in 1..Len(targetPath.parts) : targetPath.parts[j] = ".."
    THEN ErrSymlinkTraversal ELSE ""

ValidateSymlink(symlinkPath, targetPath) ==
    IF IsAbs(targetPath) THEN ""
    ELSE LET cleanResolved == Clean(Join(Dir(symlinkPath), targetPath))
         IN  IF Depth(cleanResolved.parts) < 0 THEN ErrSymlinkTraversal ELSE ""

\* AddExtractedSize that refuses a total equal to the limit.
AddExtractedSize_AtLimit(total, size) ==
    [total |-> total + size,
     err |-> IF total + size >= MaxTotalSize
             THEN "security: total extracted size exceeds max" ELSE ""]

\* AddExtractedSize: the accumulator is raised before it is compared
AddExtractedSize(total, size) ==
    [total |-> total + size,
     err |-> IF total + size > MaxTotalSize
             THEN "security: total extracted size exceeds max" ELSE ""]

\* ValidateCompressionRatio that refuses a ratio equal to the maximum.
ValidateCompressionRatio_AtLimit(compressedSize, uncompressedSize) ==
    IF compressedSize = 0 THEN "security: compressed size cannot be zero"
    ELSE IF uncompressedSize >= MaxCompressionRatio * compressedSize
    THEN "security: compression ratio exceeds max"
    ELSE ""

\* ratio := float64(uncompressed) / float64(compressed); ratio > max.
\* Both sizes are non-negative and far below 2^47, where the float64
\* quotient exceeds an integral max exactly when uncompressed exceeds
\* max * compressed; above that the quotient may round down to max.
ValidateCompressionRatio(compressedSize, uncompressedSize) ==
    IF compressedSize = 0 THEN "security: compressed size cannot be zero"
    ELSE IF uncompressedSize > MaxCompressionRatio * compressedSize
    THEN "security: compression ratio exceeds max"
    ELSE ""


(***************************************************************************)
(* Specification SpecAlloc: Repository.AllocateNextDeviceID called by      *)
(* several goroutines at once.  Each call is a deferred transaction on a   *)
(* connection of its own; SQLite (rollback journal, no busy timeout)       *)
(* arbitrates with its file locks:                                         *)
(*   shared    connections that have read in their transaction             *)
(*   reserved  the connection that has written in its transaction          *)
(*   pending   the connection whose commit waits for the readers to leave  *)
(* A statement that cannot take its lock fails at once with SQLITE_BUSY.   *)
(* fail is the environment making the statement fail for another reason.   *)
(***************************************************************************)
MaxSeqStart == 2        \* the sequence starts at 1..MaxSeqStart

InTransaction == {"begun", "read", "written"}

\* SELECT takes SHARED: refused while a commit is pending
CanRead(t, c) == t.pending \ {c} = {}
\* UPDATE takes RESERVED: refused while another connection holds it
CanWrite(t, c) == (t.reserved \cup t.pending) \ {c} = {}
\* CanCommit without the wait for the readers.
CanCommit_Always(t, c) == TRUE

\* COMMIT takes EXCLUSIVE: refused while another connection holds SHARED
CanCommit(t, c) == t.shared \ {c} = {}

Release(t, c) ==
    [t EXCEPT !.shared = @ \ {c}, !.reserved = @ \ {c}, !.pending = @ \ {c}]

\* tx, err := r.db.BeginTx(ctx, nil); defer tx.Rollback()
BeginTx(c) ==
    /\ tx.pc[c] = "call"
    /\ \E fail \in BOOLEAN :
          tx' = IF fail
                THEN [tx EXCEPT !.pc[c] = "error"]
                ELSE [tx EXCEPT !.pc[c] = "begun",
                                !.overlap = @ \/ \E d \in tx.callers :
                                                    tx.pc[d] \in InTransaction]
    /\ UNCHANGED <<proc, platform, maxRetries, images, image_seq, next_device_id, pool,
                   run, starts, faults, last, allocated, firstReady, refetch, ex>>

\* SELECT next_device_id FROM device_sequence WHERE id = 1
QueryRow(c) ==
    /\ tx.pc[c] = "begun"
    /\ \E fail \in BOOLEAN :
          tx' = IF fail \/ ~CanRead(tx, c)
                THEN [tx EXCEPT !.pc[c] = "rollback"]
                ELSE [tx EXCEPT !.pc[c] = "read", !.shared = @ \cup {c},
                                !.nextID[c] = next_device_id]
    /\ UNCHANGED <<proc, platform, maxRetries, images, image_seq, next_device_id, pool,
                   run, starts, faults, last, allocated, firstReady, refetch, ex>>

\* ExecUpdate outside the transaction: the new value is stored at once.
ExecUpdate_AutoCommit(c) ==
    /\ tx.pc[c] = "read"
    /\ tx' = [tx EXCEPT !.pc[c] = "written", !.reserved = @ \cup {c}]
    /\ next_device_id' = tx.nextID[c] + 1
    /\ UNCHANGED <<proc, platform, maxRetries, images, image_seq, pool,
                   run, starts, faults, last, allocated, firstReady, refetch, ex>>

\* UPDATE device_sequence SET next_device_id = nextID+1 WHERE id = 1
ExecUpdate(c) ==
    /\ tx.pc[c] = "read"
    /\ \E fail \in BOOLEAN :
          tx' = IF fail \/ ~CanWrite(tx, c)
                THEN [tx EXCEPT !.pc[c] = "rollback"]
                ELSE [tx EXCEPT !.pc[c] = "written", !.reserved = @ \cup {c}]
    /\ UNCHANGED <<proc, platform, maxRetries, images, image_seq, next_device_id, pool,
                   run, starts, faults, last, allocated, firstReady, refetch, ex>>

\* tx.Commit(); return nextID, nil
Commit(c) ==
    /\ tx.pc[c] = "written"
    /\ \E fail \in BOOLEAN :
          IF fail \/ ~CanCommit(tx, c)
          THEN /\ tx' = [tx EXCEPT !.pc[c] = "rollback",
                                   !.pending = IF fail THEN @ ELSE @ \cup {c}]
               /\ UNCHANGED next_device_id
          ELSE /\ tx' = [Release(tx, c) EXCEPT !.pc[c] = "returned",
                                               !.ret[c] = tx.nextID[c]]
               /\ next_device_id' = tx.nextID[c] + 1
    /\ UNCHANGED <<proc, platform, maxRetries, images, image_seq, pool,
                   run, starts, faults, last, allocated, firstReady, refetch, ex>>

\* the deferred tx.Rollback() of a call that returns an error
Rollback(c) ==
    /\ tx.pc[c] = "rollback"
    /\ tx' = [Release(tx, c) EXCEPT !.pc[c] = "error"]
    /\ UNCHANGED <<proc, platform, maxRetries, images, image_seq, next_device_id, pool,
                   run, starts, faults, last, allocated, firstReady, refetch, ex>>

\* the calling process is killed inside the transaction: its locks go with
\* it, and the next connection rolls the journal back
Kill(c) ==
    /\ tx.pc[c] \in InTransaction
    /\ tx' = [Release(tx, c) EXCEPT !.pc[c] = "killed"]
    /\ UNCHANGED <<proc, platform, maxRetries, images, image_seq, next_device_id, pool,
                   run, starts, faults, last, allocated, firstReady, refetch, ex>>

InitAlloc ==
    /\ platform = "none"
    /\ maxRetries = 0
    /\ images = {}
    /\ image_seq = 0
    /\ next_device_id \in 1..MaxSeqStart
    /\ pool = EmptyPool
    /\ run = [k \in Keys |-> [state |-> StateIdle, retry |-> 0, resp |-> EmptyResponse]]
    /\ starts = 0
    /\ faults = 0
    /\ proc = NoProc
    /\ last = NoCall
    /\ allocated = {}
    /\ firstReady = [k \in Keys |-> <<>>]
    /\ refetch = {}
    /\ \E n \in 1..MaxCallers :
          tx = [callers |-> 1..n, start |-> next_device_id,
                pc |-> [c \in 1..n |-> "call"],
                nextID |-> [c \in 1..n |-> 0],
                ret |-> [c \in 1..n |-> 0],
                shared |-> {}, reserved |-> {}, pending |-> {},
                overlap |-> FALSE]
    /\ ex = NoEx

NextAlloc ==
    \E c \in tx.callers :
        \/ BeginTx(c)
        \/ QueryRow(c)
        \/ ExecUpdate(c)
        \/ Commit(c)
        \/ Rollback(c)
        \/ Kill(c)

SpecAlloc == InitAlloc /\ [][NextAlloc]_vars

Returned == {c \in tx.callers : tx.pc[c] = "returned"}

\* C3: concurrent calls of AllocateNextDeviceID that return a value return
\* pairwise distinct values; when all k calls have returned a value, the
\* values are exactly s..s+k-1 and the stored next_device_id is s+k.
C3_AllocatorLinearizable ==
    /\ \A c, d \in Returned : c # d => tx.ret[c] # tx.ret[d]
    /\ Returned = tx.callers =>
          /\ {tx.ret[c] : c \in tx.callers}
                 = tx.start..(tx.start + Cardinality(tx.callers) - 1)
          /\ next_device_id = tx.start + Cardinality(tx.callers)

\* C3 witness: three calls whose transactions overlapped have all returned.
C3_Witness ==
    /\ Cardinality(tx.callers) >= 3
    /\ Returned = tx.callers
    /\ tx.overlap

(***************************************************************************)
(* Specification SpecExtract: one call of ExtractTarball.  The destination *)
(* tree is the set of objects the call has created; each carries the index *)
(* of the entry that created it.  An object whose path runs through a      *)
(* symlink created earlier lands where that link points (via).             *)
(***************************************************************************)
Dest == AbsPath(<<"dest">>)

TypeDir == "dir"
TypeReg == "reg"
TypeSymlink == "symlink"

EntryNames ==
    {Rel(<<"a">>), Rel(<<"a", "b">>), Rel(<<"..", "a">>), Rel(<<"a", "..", "..">>),
     Rel(<<"..a">>), AbsPath(<<"etc">>)}
LinkNames == {Rel(<<"a">>), Rel(<<"a", "b">>)}
LinkTargets ==
    {Rel(<<"..", "b">>), Rel(<<"..", "..", "etc", "passwd">>), Rel(<<"..">>),
     AbsPath(<<"etc">>)}
EntrySizes == {1, MaxFileSize, MaxFileSize + 1}
\* a tar file of no bytes holds no entry
TarSizes == {0, 1, MaxTotalSize + 1}

NoLink == Rel(<<>>)

Entries ==
    {[name |-> n, type |-> TypeDir, size |-> 0, link |-> NoLink] : n \in EntryNames}
    \cup {[name |-> n, type |-> TypeReg, size |-> z, link |-> NoLink]
            : n \in EntryNames, z \in EntrySizes}
    \cup {[name |-> n, type |-> TypeSymlink, size |-> 0, link |-> l]
            : n \in LinkNames, l \in LinkTargets}

Archives == UNION {[1..n -> Entries] : n \in 0..MaxEntries}

\* the directories between the destination and t
Ancestors(t) == {SubSeq(t, 1, n) : n \in (Len(Dest.parts) + 1)..(Len(t) - 1)}

Has(fs, path, kind) == \E o \in fs : o.path = path /\ o.kind = kind
Exists(fs, path) == path = Dest.parts \/ \E o \in fs : o.path = path

\* how the kernel reaches t: blocked by a regular file on the way, through a
\* symlink on the way, or plainly
Way(fs, t) ==
    IF \E a \in Ancestors(t) : Has(fs, a, "file") THEN "blocked"
    ELSE IF \E a \in Ancestors(t) : Has(fs, a, "symlink") THEN "via"
    ELSE "plain"

Object(t, kind, i, via, link, partial) ==
    [path |-> t, kind |-> kind, by |-> i, via |-> via, link |-> link,
     partial |-> partial]

\* os.MkdirAll(t): creates t and the missing directories above it
MkdirAll(fs, t, i, fault) ==
    IF fault \/ Way(fs, t) = "blocked" \/ Has(fs, t, "file")
    THEN [err |-> TRUE, fs |-> fs]
    ELSE [err |-> FALSE,
          fs |-> fs \cup {Object(a, "dir", i, Way(fs, t) = "via", NoLink, FALSE)
                            : a \in {b \in Ancestors(t) \cup {t} : ~Exists(fs, b)}}]

\* os.OpenFile(t, O_CREATE|O_WRONLY|O_TRUNC) and io.Copy: an existing file is
\* truncated, an existing symlink is followed; a failed copy leaves the file
OpenAndCopy(fs, t, i, fault) ==
    IF fault = "create" \/ Way(fs, t) = "blocked" \/ ~Exists(fs, Dir(AbsPath(t)).parts)
       \/ Has(fs, t, "dir") \/ t = Dest.parts
    THEN [err |-> "failed to create file", fs |-> fs]
    ELSE LET via == Way(fs, t) = "via" \/ Has(fs, t, "symlink")
             kept == {o \in fs : o.path # t \/ o.kind = "symlink"}
             file == Object(t, "file", i, via, NoLink, fault = "write")
         IN  [err |-> IF fault = "write" THEN "failed to write file" ELSE "",
              fs |-> kept \cup {file}]

\* os.Symlink(link, t); "file exists" is not an error
Symlink(fs, t, i, link, fault) ==
    IF Exists(fs, t) /\ Way(fs, t) # "blocked"
    THEN [err |-> "", fs |-> fs]
    ELSE IF fault \/ Way(fs, t) = "blocked" \/ ~Exists(fs, Dir(AbsPath(t)).parts)
    THEN [err |-> "failed to create symlink", fs |-> fs]
    ELSE [err |-> "",
          fs |-> fs \cup {Object(t, "symlink", i, Way(fs, t) = "via", link, FALSE)}]

\* The body of ExtractTarball's loop for entry e, the i-th of the archive.
ExtractEntry(e, i, fs, total, fault) ==
    LET pathErr == ValidatePath(e.name)
        target == Join(Dest, e.name).parts
        keep == [err |-> "", fs |-> fs, total |-> total]
        md == MkdirAll(fs, target, i, fault = "mkdir")
        sizeErr == ValidateFileSize(e.size)
        add == AddExtractedSize(total, e.size)
        pd == MkdirAll(fs, Dir(AbsPath(target)).parts, i, fault = "mkdir")
        oc == OpenAndCopy(pd.fs, target, i, fault)
        linkErr == ValidateSymlink(e.name, e.link)
        sl == Symlink(fs, target, i, e.link, fault = "symlink")
    IN  IF pathErr # ""
        THEN [keep EXCEPT !.err = "invalid path in tar: " \o pathErr]
        ELSE IF e.type = TypeDir
        THEN IF md.err
             THEN [keep EXCEPT !.err = "failed to create directory"]
             ELSE [keep EXCEPT !.fs = md.fs]
        ELSE IF e.type = TypeReg
        THEN IF sizeErr # ""
             THEN [keep EXCEPT !.err = sizeErr]
             ELSE IF add.err # ""
             THEN [keep EXCEPT !.err = add.err, !.total = add.total]
             ELSE IF pd.err
             THEN [keep EXCEPT !.err = "failed to create parent dir",
                               !.total = add.total]
             ELSE [err |-> oc.err, fs |-> oc.fs, total |-> add.total]
        ELSE IF linkErr # ""
        THEN [keep EXCEPT !.err = "invalid symlink target: " \o linkErr]
        ELSE [keep EXCEPT !.err = sl.err, !.fs = sl.fs]

EntryFaults == {"none", "read", "mkdir", "create", "write", "symlink"}

\* validator.Reset(); os.Open(tarPath)
ExtractOpen ==
    /\ ex.status = "called"
    /\ \E fail \in BOOLEAN :
          ex' = IF fail
                THEN [ex EXCEPT !.status = "error", !.err = "failed to open tar",
                                !.total = 0, !.faulted = TRUE]
                ELSE [ex EXCEPT !.status = "running", !.total = 0]
    /\ UNCHANGED <<proc, platform, maxRetries, images, image_seq, next_device_id, pool,
                   run, starts, faults, last, allocated, firstReady, refetch, tx>>

\* one turn of the loop: tarReader.Next() returned the next header
ExtractStep ==
    /\ ex.status = "running"
    /\ ex.pos < Len(ex.archive)
    /\ \E fault \in EntryFaults :
          LET i == ex.pos + 1
              plain == ExtractEntry(ex.archive[i], i, ex.fs, ex.total, "none")
              r == IF fault = "read"
                   THEN [err |-> "tar read error", fs |-> ex.fs, total |-> ex.total]
                   ELSE ExtractEntry(ex.archive[i], i, ex.fs, ex.total, fault)
          IN  ex' = [ex EXCEPT !.pos = i, !.fs = r.fs, !.total = r.total,
                               !.err = r.err,
                               !.status = IF r.err = "" THEN "running" ELSE "error",
                               !.faulted = @ \/ r # plain]
    /\ UNCHANGED <<proc, platform, maxRetries, images, image_seq, next_device_id, pool,
                   run, starts, faults, last, allocated, firstReady, refetch, tx>>

\* io.EOF: os.Stat(tarPath), then ValidateCompressionRatio
ExtractFinish ==
    /\ ex.status = "running"
    /\ ex.pos = Len(ex.archive)
    /\ \E fail \in BOOLEAN :
          LET err == IF fail THEN "failed to stat tar"
                     ELSE ValidateCompressionRatio(ex.tarSize, ex.total)
          IN  ex' = [ex EXCEPT !.err = err,
                               !.status = IF err = "" THEN "ok" ELSE "error",
                               !.faulted = @ \/ fail]
    /\ UNCHANGED <<proc, platform, maxRetries, images, image_seq, next_device_id, pool,
                   run, starts, faults, last, allocated, firstReady, refetch, tx>>

InitExtract ==
    /\ platform = "none"
    /\ maxRetries = 0
    /\ images = {}
    /\ image_seq = 0
    /\ next_device_id = 1
    /\ pool = EmptyPool
    /\ run = [k \in Keys |-> [state |-> StateIdle, retry |-> 0, resp |-> EmptyResponse]]
    /\ starts = 0
    /\ faults = 0
    /\ proc = NoProc
    /\ last = NoCall
    /\ allocated = {}
    /\ firstReady = [k \in Keys |-> <<>>]
    /\ refetch = {}
    /\ tx = NoTx
    /\ \E archive \in Archives, tarSize \in TarSizes, left \in {0, MaxTotalSize} :
          /\ tarSize = 0 => archive = <<>>
          /\ ex = [archive |-> archive, tarSize |-> tarSize, pos |-> 0,
                status |-> "called", err |-> "", fs |-> {}, total |-> left,
                faulted |-> FALSE]

NextExtract == ExtractOpen \/ ExtractStep \/ ExtractFinish

SpecExtract == InitExtract /\ [][NextExtract]_vars

(***************************************************************************)
(* Properties of the extractor (specification SpecExtract).                *)
(***************************************************************************)
ExtractReturned == ex.status \in {"ok", "error"}

\* the name is absolute or its cleaned form begins with ".."
NameOffends(name) == IsAbs(name) \/ HasDotDotPrefix(Clean(name))

OffendingEntries == {i \in 1..Len(ex.archive) : NameOffends(ex.archive[i].name)}

FirstOffending == CHOOSE i \in OffendingEntries : \A j \in OffendingEntries : i <= j

IsPathViolation(err) ==
    err \in {"invalid path in tar: " \o ErrAbsolutePath,
             "invalid path in tar: " \o ErrPathTraversal}

\* C5 as stated: when the archive holds an entry with an offending name and no
\* call of the environment has failed, ExtractTarball returns a path-violation
\* error and has created nothing in the destination.
C5_NothingCreatedOnPathViolation ==
    (ExtractReturned /\ ~ex.faulted /\ OffendingEntries # {}) =>
        /\ ex.status = "error"
        /\ IsPathViolation(ex.err)
        /\ ex.fs = {}

\* C5 amended: when the archive holds an entry with an offending name,
\* ExtractTarball returns an error, it has read no entry past the first
\* offending one and created nothing for that entry or a later one; when it
\* got as far as that entry and the archive could be read, the error is the
\* path violation.
C5_PathViolationStopsExtraction ==
    (ExtractReturned /\ OffendingEntries # {}) =>
        /\ ex.status = "error"
        /\ ex.pos <= FirstOffending
        /\ \A o \in ex.fs : o.by < FirstOffending
        /\ (ex.pos = FirstOffending /\ ~ex.faulted) => IsPathViolation(ex.err)

\* C5 witness: the offending entry is the second one; extraction has returned
\* the path violation and what the first entry created is in the destination.
C5_Witness ==
    /\ ExtractReturned
    /\ OffendingEntries # {}
    /\ FirstOffending = 2
    /\ IsPathViolation(ex.err)
    /\ ex.fs # {}

\* the relative target, resolved against the symlink's directory and
\* normalized, lies outside the extraction root
Escapes(name, target) ==
    LET resolved == Join(Dir(name), target)
    IN  resolved.parts # <<>> /\ resolved.parts[1] = ".."

\* C6: a symlink entry with a relative target that resolves outside the
\* extraction root fails validate_symlink: extraction ends in an error and the
\* link is not created.
C6_EscapingSymlinkRejected ==
    \A i \in 1..ex.pos :
        (/\ ex.archive[i].type = TypeSymlink
         /\ ValidatePath(ex.archive[i].name) = ""
         /\ ~IsAbs(ex.archive[i].link)
         /\ Escapes(ex.archive[i].name, ex.archive[i].link)) =>
            /\ ex.status = "error"
            /\ ~\E o \in ex.fs : o.by = i /\ o.kind = "symlink"

(***************************************************************************)
(* Specification SpecComplete: handleComplete alone, invoked on a registry *)
(* and a pool that earlier processes left behind.  The registry file       *)
(* outlives the process, so the manager of the process that completes the  *)
(* row need not be the one that wrote device_path.                         *)
(***************************************************************************)
\* the pools that can hold the devices of a row with base id b, snapshot id n
PoolsOf(b, n) ==
    {[thin |-> thin, nodes |-> nodes, mounts |-> {}] :
        thin \in SUBSET ({b, n} \ {0}),
        nodes \in SUBSET {BaseNode(b), SnapshotNode(n)}}

LeftBehind(p, b, n) ==
    /\ BaseNode(b) \in p.nodes => b \in p.thin
    /\ SnapshotNode(n) \in p.nodes => n \in p.thin /\ b \in p.thin

InitComplete ==
    /\ platform \in {"linux", "stub", "none"}
    /\ maxRetries \in 0..MaxRetriesCfg
    /\ \E b \in {0, 1}, n \in {0, 2} :
          /\ b = 0 => n = 0
          /\ images = {[id |-> 1, s3_key |-> FirstKey, sha256 |-> Digest(FirstKey),
                        status |-> StatusDownloading,
                        device_path |-> IF b = 0 THEN <<>>
                                        ELSE DevicePathOf(BaseNode(b)),
                        base_device_id |-> b, snapshot_id |-> n,
                        error_message |-> ""]}
          /\ allocated = {b, n} \ {0}
          /\ next_device_id = Cardinality({b, n} \ {0}) + 1
          /\ pool \in {p \in PoolsOf(b, n) : LeftBehind(p, b, n)}
          /\ platform # "linux" => pool = EmptyPool
    /\ image_seq = 1
    /\ run = [k \in Keys |->
                IF k = FirstKey
                THEN [state |-> StateComplete, retry |-> 0,
                      resp |-> [EmptyResponse EXCEPT !.ImageID = 1,
                                                     !.SHA256 = Digest(FirstKey)]]
                ELSE [state |-> StateIdle, retry |-> 0, resp |-> EmptyResponse]]
    /\ starts = 1
    /\ faults = 0
    /\ proc = NoProc
    /\ last = NoCall
    /\ firstReady = [k \in Keys |-> <<>>]
    /\ refetch = {}
    /\ tx = NoTx
    /\ ex = NoEx

NextComplete == Complete(FirstKey)

SpecComplete == InitComplete /\ [][NextComplete]_vars

StatusCleaned == "cleaned"

CleanupFaults == {"none", "get", "delete", "remove", "update"}

\* cleanupImageResources: what it does to the pool and the registry
cleanupImageResources(img, fault) ==
    LET manager == platform # "none"
        \* 1. the snapshot: DeleteDevice(<snapshot id>) when its node exists
        d1 == IF manager /\ img.snapshot_id # 0
                 /\ SnapshotNode(img.snapshot_id) \in pool.nodes
              THEN DeleteDevice(platform, pool, img.snapshot_id, fault = "delete").pool
              ELSE pool
        img1 == IF manager /\ img.snapshot_id # 0
                THEN [img EXCEPT !.snapshot_id = 0] ELSE img
        \* 2. the base device: DeleteDevice(<base id>) when its node exists
        d2 == IF manager /\ img.base_device_id > 0
                 /\ BaseNode(img.base_device_id) \in d1.nodes
              THEN DeleteDevice(platform, d1, img.base_device_id, fault = "delete").pool
              ELSE d1
        img2 == IF manager /\ img.base_device_id > 0
                THEN [img1 EXCEPT !.base_device_id = 0, !.device_path = <<>>]
                ELSE img1
        \* 5. the row
        u == Update(images, [img2 EXCEPT !.status = StatusCleaned])
    IN  IF fault = "remove"
        THEN [err |-> "failed to remove extracted files", pool |-> d2,
              images |-> images]
        ELSE IF fault = "update" \/ u.err
        THEN [err |-> "failed to update database", pool |-> d2, images |-> images]
        ELSE [err |-> "", pool |-> d2, images |-> u.images]

\* cleanupSpecificImage
Cleanup(k) ==
    /\ run[k].state \in {StateIdle, StateDone, StateFailed}
    /\ Row(k) # NilImage
    /\ \E fault \in CleanupFaults :
          \E plain \in {cleanupImageResources(Row(k), "none")},
             c \in {IF fault = "get"
                    THEN [err |-> "image not found", pool |-> pool, images |-> images]
                    ELSE cleanupImageResources(Row(k), fault)} :
              /\ fault = "none" \/ c # plain
              /\ faults + (IF fault = "none" THEN 0 ELSE 1) <= MaxFaults
              /\ faults' = faults + (IF fault = "none" THEN 0 ELSE 1)
              /\ pool' = c.pool
              /\ images' = c.images
              /\ last' = [NoCall EXCEPT !.key = k, !.handler = "cleanup",
                                        !.result = IF c.err = "" THEN "ok" ELSE "error",
                                        !.reason = c.err]
    /\ UNCHANGED <<proc, platform, maxRetries, image_seq, next_device_id, run, starts,
                   allocated, firstReady, refetch, tx, ex>>

NextCleanup ==
    \/ Start(FirstKey)
    \/ CheckDB(FirstKey)
    \/ Download(FirstKey)
    \/ Validate(FirstKey)
    \/ CreateDeviceStep(FirstKey)
    \/ Complete(FirstKey)
    \/ Cleanup(FirstKey)

SpecCleanup == Init /\ [][NextCleanup]_vars

(***************************************************************************)
(* Specification SpecResume: one activation whose process may be killed    *)
(* between two handler invocations.  The engine's store keeps the run's    *)
(* state and response; the registry, the pool and the work directory are   *)
(* on disk or in the kernel.  The engine's resume action then continues    *)
(* the run at the transition it had reached.                               *)
(***************************************************************************)
MaxCrashes == 1

ActiveStates ==
    {StateCheckDB, StateDownload, StateValidate, StateCreateDevice, StateComplete}

\* the process is killed
Crash ==
    /\ proc.alive
    /\ proc.crashes < MaxCrashes
    /\ run[FirstKey].state \in ActiveStates
    /\ proc' = [proc EXCEPT !.alive = FALSE, !.crashes = @ + 1]
    /\ UNCHANGED <<platform, maxRetries, images, image_seq, next_device_id, pool,
                   run, starts, faults, last, allocated, firstReady, refetch, tx, ex>>

ResumeResponse_Lost(k) == EmptyResponse

\* what the engine hands to the handler after a restart: the persisted response
ResumeResponse(k) == run[k].resp

\* resume(ctx): every paused run continues at its transition; whether the
\* attempt counter survives the restart is the engine's business.
Resume ==
    /\ ~ proc.alive
    /\ \E retry \in {0, run[FirstKey].retry} :
          run' = [run EXCEPT ![FirstKey].retry = retry,
                             ![FirstKey].resp = ResumeResponse(FirstKey)]
    /\ proc' = [proc EXCEPT !.alive = TRUE,
                            !.resumedAt = @ \cup {run[FirstKey].state}]
    /\ UNCHANGED <<platform, maxRetries, images, image_seq, next_device_id, pool,
                   starts, faults, last, allocated, firstReady, refetch, tx, ex>>

NextResume ==
    \/ Start(FirstKey)
    \/ CheckDB(FirstKey)
    \/ Download(FirstKey)
    \/ Validate(FirstKey)
    \/ CreateDeviceStep(FirstKey)
    \/ Complete(FirstKey)
    \/ Crash
    \/ Resume

SpecResume == Init /\ [][NextResume]_vars

\* C11: a cleanup of k that follows a successful activation of k (row ready,
\* run done) and meets no failure of its own leaves the row in the terminal
\* status cleaned, no mount of k's device, and no activated device node for the
\* base_device_id or the snapshot_id the row recorded.
C11_CleanupReleasesEverything ==
    [][\A k \in Keys :
          (/\ run[k].state = StateDone
           /\ Row(k).status = StatusReady
           /\ last'.key = k
           /\ last'.handler = "cleanup"
           /\ faults' = faults) =>
              /\ Row(k)'.status = StatusCleaned
              /\ ~ NodeMounted(pool', BaseNode(Row(k).base_device_id))
              /\ ~ NodeMounted(pool', SnapshotNode(Row(k).snapshot_id))
              /\ BaseNode(Row(k).base_device_id) \notin pool'.nodes
              /\ SnapshotNode(Row(k).snapshot_id) \notin pool'.nodes]_vars

\* C12: in a run whose check_db found the row ready (the response carries
\* Status ready from check_db on), every later handler short-circuits: the
\* row's status stays ready, the handler allocates no device id and makes no
\* device-manager call.
C12_ReadyRunShortCircuits ==
    [][\A k \in Keys :
          (/\ run[k].state \in {StateDownload, StateValidate, StateCreateDevice,
                                StateComplete}
           /\ run[k].resp.Status = StatusReady
           /\ Row(k).status = StatusReady
           /\ last'.key = k
           /\ last'.handler = run[k].state) =>
              /\ Row(k)'.status = StatusReady
              /\ last'.ids = {}
              /\ last'.dm = {}]_vars

\* The first activation of FirstKey has run to its end on the full platform
\* and no call of it failed.
HappyPathDone ==
    /\ platform = "linux"
    /\ starts = 1
    /\ faults = 0
    /\ run[FirstKey].state = StateDone

C14_StubEndsReadyWithoutDevice ==
    platform = "stub" =>
        /\ pool = EmptyPool
        /\ \A k \in Keys :
              /\ DeviceTriple(Row(k)) = <<<<>>, 0, 0>>
              /\ run[k].state = StateDone => Row(k).status = StatusReady
        /\ last.result = "abort" =>
              /\ last.dm = {}
              /\ last.cdErr = ""
              /\ last.snapErr = ""

C14_Witness ==
    /\ platform = "stub"
    /\ run[FirstKey].state = StateDone
    /\ Row(FirstKey).status = StatusReady
    /\ last.handler = StateComplete
    /\ next_device_id > 1

Unfinished == {c \in tx.callers : tx.pc[c] \in {"rollback", "error", "killed"}}

\* C16: a call of AllocateNextDeviceID that fails or is killed before its
\* commit leaves the stored next_device_id as it was: the sequence has
\* advanced by exactly the number of calls that returned a value, and the id
\* such a call had read is either still the next one to be handed out or has
\* been returned by a call that succeeded.
C16_NoIdBurned ==
    /\ next_device_id = tx.start + Cardinality(Returned)
    /\ \A c \in Unfinished :
          tx.nextID[c] # 0 =>
              \/ tx.nextID[c] = next_device_id
              \/ \E d \in Returned : tx.ret[d] = tx.nextID[c]

\* C16 witness: a call was killed after its UPDATE, a second one failed after
\* reading, and a later call returned the id the killed one had read.
C16_Witness ==
    \E c, d, e \in tx.callers :
        /\ tx.pc[c] = "killed"
        /\ tx.pc[d] = "error"
        /\ tx.nextID[c] # 0
        /\ tx.nextID[d] # 0
        /\ tx.pc[e] = "returned"
        /\ tx.ret[e] = tx.nextID[c]

\* C17: every row of the registry whose status is failed carries a non-empty
\* error_message.
C17_FailedRowHasMessage ==
    \A r \in images : r.status = StatusFailed => r.error_message # ""

\* C17 witness: a handler has just aborted and left its row failed.
C17_Witness ==
    /\ last.result = "abort"
    /\ Row(last.key).status = StatusFailed
    /\ run[last.key].state = StateFailed

\* C18: when the object store answers "not found", download aborts on that
\* very attempt and leaves the row failed; a network error and a failure to
\* create the download directory are ordinary errors, which the engine retries.
C18_NotFoundAborts ==
    last.handler = StateDownload =>
        /\ last.reason = ErrS3NotFound =>
              /\ last.result = "abort"
              /\ run[last.key].state = StateFailed
              /\ Row(last.key).status = StatusFailed
        /\ last.reason \in {ErrS3Network, "failed to create download dir"} =>
              last.result = "retry"

\* the messages of the Validator's errors
ValidatorMessages ==
    {ErrAbsolutePath, ErrPathTraversal, ErrSymlinkTraversal,
     ValidateFileSize(MaxFileSize + 1),
     AddExtractedSize(MaxTotalSize, 1).err,
     ValidateCompressionRatio(1, MaxCompressionRatio + 1)}

\* C19: when validate ends on a validator rejection (the download over the
\* per-file ceiling, or an extraction the validator refused) the handler
\* aborts, the run is failed and never reaches create_device, and the row is
\* failed with error_message equal to the validator error's message.
C19_ValidatorRejectionAborts ==
    (/\ last.handler = StateValidate
     /\ last.result # "ok"
     /\ last.reason \notin {ErrMaxRetries, "failed to clean extract dir",
                            "failed to create extract dir"}) =>
        /\ last.result = "abort"
        /\ run[last.key].state = StateFailed
        /\ Row(last.key).status = StatusFailed
        /\ Row(last.key).error_message \in ValidatorMessages

\* C20: whenever handleCreateDevice has returned, with success, with an
\* ordinary error or with an abort, the device it created in that attempt is
\* mounted nowhere.
C20_NoDanglingMount ==
    last.handler = StateCreateDevice =>
        \A id \in last.ids :
            /\ ~ NodeMounted(pool, BaseNode(id))
            /\ \A m \in pool.mounts : m.path # MountPathOf(id)

(***************************************************************************)
(* Specification SpecRace: handleCheckDB run by several processes at once, *)
(* each on a key of its own choice.  GetByS3Key and Create are separate    *)
(* statements on the registry, so other processes' statements may fall     *)
(* between them.                                                           *)
(***************************************************************************)
\* img, err := m.repo.GetByS3Key(req.Msg.S3Key)
RaceGet(c) ==
    /\ tx.pc[c] = "call"
    /\ LET img == GetByS3Key(images, tx.key[c])
       IN  tx' = [tx EXCEPT !.pc[c] = IF img = NilImage THEN "create" ELSE "found",
                            !.id[c] = img.id]
    /\ UNCHANGED <<proc, platform, maxRetries, images, image_seq, next_device_id, pool,
                   run, starts, faults, last, allocated, firstReady, refetch, ex>>

\* m.repo.Create(img) of the pending record; an error is an ordinary error
RaceCreate(c) ==
    /\ tx.pc[c] = "create"
    /\ \E fail \in BOOLEAN :
          LET cr == Create(images, image_seq,
                           [NilImage EXCEPT !.s3_key = tx.key[c], !.sha256 = <<>>,
                                            !.status = StatusPending])
          IN  IF fail \/ cr.err
              THEN /\ tx' = [tx EXCEPT !.pc[c] = "error",
                                       !.refused = @ \/ (~fail /\ cr.err)]
                   /\ UNCHANGED <<images, image_seq>>
              ELSE /\ tx' = [tx EXCEPT !.pc[c] = "created", !.id[c] = cr.id]
                   /\ images' = cr.images
                   /\ image_seq' = cr.seq
    /\ UNCHANGED <<proc, platform, maxRetries, next_device_id, pool,
                   run, starts, faults, last, allocated, firstReady, refetch, ex>>

\* the engine invokes check_db again after an ordinary error
RaceRetry(c) ==
    /\ tx.pc[c] = "error"
    /\ tx.tries[c] < MaxRetriesCfg
    /\ tx' = [tx EXCEPT !.pc[c] = "call", !.tries[c] = @ + 1]
    /\ UNCHANGED <<proc, platform, maxRetries, images, image_seq, next_device_id, pool,
                   run, starts, faults, last, allocated, firstReady, refetch, ex>>

InitRace ==
    /\ platform = "none"
    /\ maxRetries = MaxRetriesCfg + 1
    /\ images = {}
    /\ image_seq = 0
    /\ next_device_id = 1
    /\ pool = EmptyPool
    /\ run = [k \in Keys |-> [state |-> StateIdle, retry |-> 0, resp |-> EmptyResponse]]
    /\ starts = 0
    /\ faults = 0
    /\ proc = NoProc
    /\ last = NoCall
    /\ allocated = {}
    /\ firstReady = [k \in Keys |-> <<>>]
    /\ refetch = {}
    /\ \E n \in 2..MaxCallers :
          \E key \in [1..n -> Keys] :
              tx = [callers |-> 1..n, key |-> key,
                    pc |-> [c \in 1..n |-> "call"],
                    id |-> [c \in 1..n |-> 0],
                    tries |-> [c \in 1..n |-> 0],
                    refused |-> FALSE]
    /\ ex = NoEx

NextRace ==
    \E c \in tx.callers :
        \/ RaceGet(c)
        \/ RaceCreate(c)
        \/ RaceRetry(c)

SpecRace == InitRace /\ [][NextRace]_vars

\* C21: whatever the interleaving of the processes' registry statements, no
\* two rows of the registry carry the same key, and a Create that fails
\* leaves the rows and the id counter as they were.
C21_KeyUnique ==
    /\ [](\A r1, r2 \in images : r1.s3_key = r2.s3_key => r1 = r2)
    /\ [][\A c \in tx.callers :
             (tx.pc[c] = "create" /\ tx'.pc[c] = "error") =>
                 (images' = images /\ image_seq' = image_seq)]_vars

\* C21 witness: two invocations for one key both found no row; one inserted
\* it and the other's Create was refused for the duplicate key.
C21_Witness ==
    /\ tx.refused
    /\ \E c, d \in tx.callers :
          /\ c # d
          /\ tx.key[c] = tx.key[d]
          /\ tx.pc[c] = "created"
          /\ tx.pc[d] = "error"
          /\ tx.tries[c] = 0
          /\ tx.tries[d] = 0
    /\ Cardinality(images) = 1

(***************************************************************************)
(* Specification SpecRepo: Update and UpdateStatus called on a registry of *)
(* up to two rows with ids that may or may not be in it.                   *)
(***************************************************************************)
RepoIds == {1, 2, 3}

RepoRow(id, status) ==
    [NilImage EXCEPT !.id = id,
                     !.s3_key = IF id = 1 THEN FirstKey ELSE <<"mirror", "a.tar">>,
                     !.status = status,
                     !.error_message = IF status = StatusFailed THEN "copy error" ELSE ""]

\* r.Update(img)
RepoUpdate ==
    \E id \in RepoIds, status \in {StatusDownloading, StatusReady} :
        LET u == Update(images, [RepoRow(id, status) EXCEPT !.sha256 = Digest(FirstKey)])
        IN  /\ images' = u.images
            /\ last' = [NoCall EXCEPT !.handler = "Update", !.ids = {id},
                                      !.result = IF u.err THEN "error" ELSE "ok"]
            /\ UNCHANGED <<proc, platform, maxRetries, image_seq, next_device_id, pool,
                           run, starts, faults, allocated, firstReady, refetch, tx, ex>>

\* r.UpdateStatus(id, status, errorMessage): the error is Exec's alone
RepoUpdateStatus ==
    \E id \in RepoIds, status \in {StatusDownloading, StatusFailed}, fail \in BOOLEAN :
        /\ images' = IF fail THEN images
                     ELSE UpdateStatus(images, id, status,
                                       IF status = StatusFailed THEN "copy error" ELSE "")
        /\ last' = [NoCall EXCEPT !.handler = "UpdateStatus", !.ids = {id},
                                  !.result = IF fail THEN "error" ELSE "ok"]
        /\ UNCHANGED <<proc, platform, maxRetries, image_seq, next_device_id, pool,
                       run, starts, faults, allocated, firstReady, refetch, tx, ex>>

InitRepo ==
    /\ platform = "none"
    /\ maxRetries = 0
    /\ \E ids \in SUBSET {1, 2} :
          \E st \in [ids -> {StatusPending, StatusReady, StatusFailed}] :
              images = {RepoRow(id, st[id]) : id \in ids}
    /\ image_seq = 2
    /\ next_device_id = 1
    /\ pool = EmptyPool
    /\ run = [k \in Keys |-> [state |-> StateIdle, retry |-> 0, resp |-> EmptyResponse]]
    /\ starts = 0
    /\ faults = 0
    /\ proc = NoProc
    /\ last = NoCall
    /\ allocated = {}
    /\ firstReady = [k \in Keys |-> <<>>]
    /\ refetch = {}
    /\ tx = NoTx
    /\ ex = NoEx

NextRepo == RepoUpdate \/ RepoUpdateStatus

SpecRepo == InitRepo /\ [][NextRepo]_vars

\* C22: Update and UpdateStatus called with an id that matches no row both
\* return an error (NotFound) and leave the registry unchanged.
C22_UpdateOfMissingRowFails ==
    [][(/\ last'.handler \in {"Update", "UpdateStatus"}
        /\ \A r \in images : {r.id} # last'.ids) =>
           /\ last'.result = "error"
           /\ images' = images]_vars

\* C23: check_db inserts a row only when GetByS3Key finds none.  For an
\* absent key a successful check_db adds exactly one row, pending and with an
\* empty digest, and puts that row's id in the response; for a key that is
\* present, in whatever status, it leaves the registry as it is and puts the
\* existing row's id in the response.  A check_db that fails inserts nothing.
C23_CheckDBInsertsOnlyWhenAbsent ==
    [][\A k \in Keys :
          (/\ run[k].state = StateCheckDB
           /\ last'.key = k
           /\ last'.handler = StateCheckDB) =>
              IF last'.result # "ok"
              THEN images' = images
              ELSE IF Row(k) = NilImage
              THEN /\ images' = images \cup {Row(k)'}
                   /\ Cardinality(images') = Cardinality(images) + 1
                   /\ Row(k)'.status = StatusPending
                   /\ Row(k)'.sha256 = <<>>
                   /\ Row(k)'.id # 0
                   /\ run'[k].resp.ImageID = Row(k)'.id
              ELSE /\ images' = images
                   /\ run'[k].resp.ImageID = Row(k).id]_vars

\* C23 witness: the second activation has passed check_db, which found the
\* key's row and put its id in the response.
C23_Witness ==
    /\ last.handler = StateCheckDB
    /\ last.result = "ok"
    /\ starts = 2
    /\ Row(last.key).status \in {StatusReady, StatusFailed, StatusDownloading}
    /\ run[last.key].resp.ImageID = Row(last.key).id
    /\ run[last.key].state = StateDownload

\* C24: when complete runs for a row with a device_path and reaches the
\* snapshot, a row that already carries a snapshot_id makes it allocate
\* nothing (next_device_id unchanged) and create the snapshot under the stored
\* id; a row whose snapshot_id is zero makes it allocate exactly one id in
\* that attempt.
C24_SnapshotIdReuse ==
    [][\A k \in Keys :
          (/\ run[k].state = StateComplete
           /\ last'.key = k
           /\ last'.handler = StateComplete
           /\ platform # "none"
           /\ Row(k).device_path # <<>>) =>
              IF Row(k).snapshot_id # 0
              THEN /\ next_device_id' = next_device_id
                   /\ last'.ids = {}
                   /\ (last'.dm # {} /\ last'.snapErr = "") =>
                          /\ Row(k)'.snapshot_id = Row(k).snapshot_id
                          /\ SnapshotNode(Row(k).snapshot_id) \in pool'.nodes
              ELSE last'.dm # {} =>
                      /\ last'.ids = {next_device_id}
                      /\ next_device_id' = next_device_id + 1]_vars

\* C24 witness: complete has created the snapshot under the id the row
\* already carried, and the sequence stands where it stood.
C24_Witness ==
    /\ last.handler = StateComplete
    /\ last.result = "ok"
    /\ last.dm = {"CreateSnapshot"}
    /\ last.snapErr = ""
    /\ last.ids = {}
    /\ Row(FirstKey).snapshot_id = 2
    /\ SnapshotNode(2) \in pool.nodes
    /\ next_device_id = 3

\* C25: every row that is ready and carries a snapshot_id has that
\* snapshot_id greater than its base_device_id, however often the key has been
\* activated and its handlers retried.
C25_SnapshotAboveBase ==
    \A r \in images :
        (r.status = StatusReady /\ r.snapshot_id # 0) =>
            r.snapshot_id > r.base_device_id

\* C25 witness: a ready row whose ids were allocated after a retry of
\* create_device had already taken an id.
C25_Witness ==
    /\ Row(FirstKey).status = StatusReady
    /\ Row(FirstKey).base_device_id > 1
    /\ Row(FirstKey).snapshot_id > Row(FirstKey).base_device_id
    /\ run[FirstKey].state = StateDone

\* C26: validate_symlink accepts every absolute target and every relative
\* target that, resolved against the symlink's directory and normalized, stays
\* within the extraction root: extraction never ends on such an entry with the
\* symlink error.
C26_SymlinkWithinRootAccepted ==
    \A i \in 1..ex.pos :
        (/\ ex.archive[i].type = TypeSymlink
         /\ ValidatePath(ex.archive[i].name) = ""
         /\ \/ IsAbs(ex.archive[i].link)
            \/ ~Escapes(ex.archive[i].name, ex.archive[i].link)) =>
            /\ ValidateSymlink(ex.archive[i].name, ex.archive[i].link) = ""
            /\ ex.pos = i => ex.err # "invalid symlink target: " \o ErrSymlinkTraversal

\* C26 witness: after the directory a, the link a/b -> ../b has been created.
C26_Witness ==
    \E i \in 1..ex.pos :
        /\ ex.archive[i].type = TypeSymlink
        /\ ex.archive[i].name = Rel(<<"a", "b">>)
        /\ ex.archive[i].link = Rel(<<"..", "b">>)
        /\ ~Escapes(ex.archive[i].name, ex.archive[i].link)
        /\ \E o \in ex.fs : o.by = i /\ o.kind = "symlink"

\* the name is absolute, or its canonical form begins with a ".." component
LeavesRoot(name) ==
    \/ IsAbs(name)
    \/ Clean(name).parts # <<>> /\ Clean(name).parts[1] = ".."

\* C27: validate_path rejects an entry's name if and only if the name is
\* absolute or its canonical form leaves the extraction root (begins with a
\* ".." component); a name that stays within the root is accepted.
C27_PathRejectedIffLeavesRoot ==
    \A i \in 1..ex.pos :
        (ValidatePath(ex.archive[i].name) # "") <=> LeavesRoot(ex.archive[i].name)

\* the sum of the sizes of the regular-file entries among the first n
RECURSIVE RegSum(_)
RegSum(n) ==
    IF n = 0 THEN 0
    ELSE RegSum(n - 1)
         + (IF ex.archive[n].type = TypeReg THEN ex.archive[n].size ELSE 0)

ErrTotalSize == AddExtractedSize(MaxTotalSize, 1).err

\* C28: the accumulator starts at zero for each archive, whatever an earlier
\* extraction left in it, and counts the regular files of this archive only:
\* while extraction goes on the total is the sum of their sizes and within
\* the limit, and the entry at which add_extracted_size is reached fails on
\* the total exactly when the sum including that entry exceeds
\* max_total_size (a sum equal to the limit is accepted).
C28_TotalSizeLimit ==
    /\ ex.status \in {"running", "ok"} =>
          /\ ex.total = RegSum(ex.pos)
          /\ ex.total <= MaxTotalSize
    /\ (/\ ex.status = "error"
        /\ ex.pos > 0
        /\ ex.err # "tar read error"
        /\ ex.archive[ex.pos].type = TypeReg
        /\ ValidatePath(ex.archive[ex.pos].name) = ""
        /\ ValidateFileSize(ex.archive[ex.pos].size) = "") =>
           (ex.err = ErrTotalSize <=> RegSum(ex.pos) > MaxTotalSize)
    /\ ex.err = ErrTotalSize =>
          /\ ex.pos > 0
          /\ ex.archive[ex.pos].type = TypeReg
          /\ RegSum(ex.pos - 1) <= MaxTotalSize

\* C28 witness: two regular files whose sizes add up to exactly the limit have
\* been extracted.
C28_Witness ==
    /\ ex.status = "running"
    /\ ex.pos = 2
    /\ ex.archive[1].type = TypeReg
    /\ ex.archive[2].type = TypeReg
    /\ ex.total = MaxTotalSize
    /\ RegSum(2) = MaxTotalSize

CompressionBomb ==
    {"security: compressed size cannot be zero",
     "security: compression ratio exceeds max"}

C30_NoPartialFileAfterWriteFailure ==
    (ex.status = "error" /\ ex.err = "failed to write file") =>
        /\ ~\E o \in ex.fs : o.partial
        /\ ~\E o \in ex.fs : o.kind = "file" /\ o.by = ex.pos

\* C31: two activations with different keys that are both under way have
\* written different download files and different scratch-extraction
\* directories.
C31_WorkPathsDisjoint ==
    \A k1, k2 \in Keys :
        (/\ k1 # k2
         /\ run[k1].state \in ActiveStates
         /\ run[k2].state \in ActiveStates) =>
            /\ (/\ run[k1].resp.DownloadPath # <<>>
                /\ run[k2].resp.DownloadPath # <<>>) =>
                   run[k1].resp.DownloadPath # run[k2].resp.DownloadPath
            /\ (/\ run[k1].resp.ExtractedPath # <<>>
                /\ run[k2].resp.ExtractedPath # <<>>) =>
                   run[k1].resp.ExtractedPath # run[k2].resp.ExtractedPath

(***************************************************************************)
(* Specification SpecDM: the operations of LinuxManager called one after   *)
(* another on one thin pool.  tx is the log of the last two calls:         *)
(*   op, id, base   the operation and its ids                              *)
(*   fault          the environment made one of its commands fail          *)
(*   err            the error it returned ("" for nil)                     *)
(*   before         the pool before the call                               *)
(*   prev           op, id, base, err of the call before it                *)
(***************************************************************************)
DmIds == {1, 2, 3}

NoDmCall == [op |-> "", id |-> 0, base |-> 0, err |-> ""]

DmLog(op, id, base, fault, err) ==
    [op |-> op, id |-> id, base |-> base, fault |-> fault, err |-> err,
     before |-> pool,
     prev |-> [op |-> tx.op, id |-> tx.id, base |-> tx.base, err |-> tx.err]]

DmFrame ==
    UNCHANGED <<proc, platform, maxRetries, images, image_seq, next_device_id,
                run, starts, faults, last, allocated, firstReady, refetch, ex>>

\* m.CreateDevice(ctx, extractedPath, id)
DmCreateDevice ==
    \E id \in DmIds, fault \in {"none", "create_thin", "activate", "mkfs"} :
        LET r == CreateDevice(platform, pool, id, fault)
        IN  /\ pool' = r.pool
            /\ tx' = DmLog("create_device", id, 0, fault # "none", r.err)
            /\ DmFrame

\* m.CreateSnapshot(ctx, base, snap)
DmCreateSnapshot ==
    \E base \in DmIds, snap \in DmIds, fault \in {"none", "create_snap", "activate"} :
        LET r == CreateSnapshot(platform, pool, base, snap, fault)
        IN  /\ base # snap
            /\ pool' = r.pool
            /\ tx' = DmLog("create_snapshot", snap, base, fault # "none", r.err)
            /\ DmFrame

\* m.DeleteDevice(ctx, id)
DmDeleteDevice ==
    \E id \in DmIds, fault \in BOOLEAN :
        LET r == DeleteDevice(platform, pool, id, fault)
        IN  /\ pool' = r.pool
            /\ tx' = DmLog("delete_device", id, 0, fault, r.err)
            /\ DmFrame

InitDM ==
    /\ platform = "linux"
    /\ maxRetries = 0
    /\ images = {}
    /\ image_seq = 0
    /\ next_device_id = 1
    /\ pool = EmptyPool
    /\ run = [k \in Keys |-> [state |-> StateIdle, retry |-> 0, resp |-> EmptyResponse]]
    /\ starts = 0
    /\ faults = 0
    /\ proc = NoProc
    /\ last = NoCall
    /\ allocated = {}
    /\ firstReady = [k \in Keys |-> <<>>]
    /\ refetch = {}
    /\ tx = NoDmCall @@ [fault |-> FALSE, before |-> EmptyPool, prev |-> NoDmCall]
    /\ ex = NoEx

NextDM == DmCreateDevice \/ DmCreateSnapshot \/ DmDeleteDevice

SpecDM == InitDM /\ [][NextDM]_vars

\* C32: delete_device(id) is idempotent: without a failure of the environment
\* it succeeds when no node is activated for id, and after a successful call
\* neither the named node nor the thin id remains in the pool.
C32_DeleteDeviceIdempotent ==
    (tx.op = "delete_device" /\ ~tx.fault) =>
        /\ (BaseNode(tx.id) \notin tx.before.nodes) =>
               (tx.err = "" /\ pool = tx.before)
        /\ (tx.err = "") =>
               (BaseNode(tx.id) \notin pool.nodes /\ tx.id \notin pool.thin)

\* C33: create_device(id) and create_snapshot(base, snap) are idempotent: a
\* call that follows a successful call with the same ids succeeds too, unless
\* the environment fails it, and leaves the id in the pool with its named
\* node activated.
C33_CreateIdempotent ==
    (/\ tx.op \in {"create_device", "create_snapshot"}
     /\ ~tx.fault
     /\ tx.prev = [op |-> tx.op, id |-> tx.id, base |-> tx.base, err |-> ""]) =>
        /\ tx.err = ""
        /\ tx.id \in pool.thin
        /\ (IF tx.op = "create_device" THEN BaseNode(tx.id) ELSE SnapshotNode(tx.id))
               \in pool.nodes

(***************************************************************************)
(* Specification FairSpec: the runs of one key with the engine's           *)
(* scheduling.  The engine runs a started run in a goroutine of its own    *)
(* and invokes the handler of the run's state again after each return, so  *)
(* a run that can take a step eventually takes one.  No handler waits for  *)
(* another run.                                                            *)
(***************************************************************************)
RunStep(k) ==
    CheckDB(k) \/ Download(k) \/ Validate(k) \/ CreateDeviceStep(k) \/ Complete(k)

NextOne == Start(FirstKey) \/ RunStep(FirstKey)

FairSpec == Init /\ [][NextOne]_vars /\ WF_vars(RunStep(FirstKey))

\* C34: every started run ends in the success state or in failed, and no
\* handler is invoked with an attempt counter above max_retries, so each
\* state's handler runs at most max_retries + 1 times per visit.
C34_RunsTerminate ==
    /\ \A k \in Keys :
          (run[k].state \in ActiveStates) ~> (run[k].state \in {StateDone, StateFailed})
    /\ [](\A k \in Keys : run[k].retry <= maxRetries)
    /\ [](last.attempt <= maxRetries)

\* C34 witness: a handler was re-invoked after a retryable error and the run
\* then ended.
C34_Witness ==
    /\ last.attempt > 0
    /\ last.key \in Keys
    /\ run[last.key].state \in {StateDone, StateFailed}

\* C35: at-least-once execution of create_device is safe.  In the first run
\* on an empty pool, a device that is activated when the create_device
\* handler is invoked comes from an earlier execution of that handler, ended
\* by a retryable error or a crash after it had allocated an id and activated
\* the device.  When the handler, executed again, creates its device and
\* succeeds, every activated device is the one the registry row records (no
\* later step of the run removes a device), and that device is in the pool.
C35_AtLeastOnceCreateDeviceSafe ==
    [][(/\ starts = 1
        /\ platform = "linux"
        /\ run[FirstKey].state = StateCreateDevice
        /\ pool.nodes # {}
        /\ run'[FirstKey].state = StateComplete
        /\ last'.cdErr = "") =>
           LET row == GetByS3Key(images', FirstKey)
           IN  /\ \A id \in 1..next_device_id' :
                     BaseNode(id) \in pool'.nodes => id = row.base_device_id
               /\ row.base_device_id \in pool'.thin]_vars

(***************************************************************************)
(* Specification SpecNil: handleComplete as in SpecComplete, invoked with  *)
(* the response of the earlier transitions or with none (req.W.Msg is nil  *)
(* and the handler starts from a response without an image id).            *)
(***************************************************************************)
InitNil ==
    /\ platform \in {"linux", "stub", "none"}
    /\ maxRetries \in 0..MaxRetriesCfg
    /\ \E b \in {0, 1}, n \in {0, 2} :
          /\ b = 0 => n = 0
          /\ images = {[id |-> 1, s3_key |-> FirstKey, sha256 |-> Digest(FirstKey),
                        status |-> StatusDownloading,
                        device_path |-> IF b = 0 THEN <<>>
                                        ELSE DevicePathOf(BaseNode(b)),
                        base_device_id |-> b, snapshot_id |-> n,
                        error_message |-> ""]}
          /\ allocated = {b, n} \ {0}
          /\ next_device_id = Cardinality({b, n} \ {0}) + 1
          /\ pool \in {p \in PoolsOf(b, n) : LeftBehind(p, b, n)}
          /\ platform # "linux" => pool = EmptyPool
    /\ image_seq = 1
    /\ \E resp \in {EmptyResponse,
                    [EmptyResponse EXCEPT !.ImageID = 1, !.SHA256 = Digest(FirstKey)]} :
          run = [k \in Keys |->
                   IF k = FirstKey
                   THEN [state |-> StateComplete, retry |-> 0, resp |-> resp]
                   ELSE [state |-> StateIdle, retry |-> 0, resp |-> EmptyResponse]]
    /\ starts = 1
    /\ faults = 0
    /\ proc = NoProc
    /\ last = NoCall
    /\ firstReady = [k \in Keys |-> <<>>]
    /\ refetch = {}
    /\ tx = NoTx
    /\ ex = NoEx

SpecNil == InitNil /\ [][NextComplete]_vars

\* C36: whenever the complete handler returns success, the registry row of
\* the request's key has status ready, also when the handler was handed no
\* response of the earlier transitions.
C36_CompleteSuccessMeansReady ==
    [][(/\ run[FirstKey].state = StateComplete
        /\ run'[FirstKey].state = StateDone) =>
           GetByS3Key(images', FirstKey).status = StatusReady]_vars

(***************************************************************************)
(* Specification SpecShared: two calls of ExtractTarball at once, for two  *)
(* runs of one Machine, which hands its one Validator to both.  Each call  *)
(* of the validator is atomic (its mutex).  The archives hold regular      *)
(* files that pass the path and file-size checks.  ex is                   *)
(*   archive, tarSize   per extraction: the entries' sizes, the tar's size *)
(*   pc, pos, err       per extraction: progress, entries added, error     *)
(*   total              Validator.currentTotalSize, shared                 *)
(***************************************************************************)
Extractors == {1, 2}

SharedFrame ==
    UNCHANGED <<proc, platform, maxRetries, images, image_seq, next_device_id, pool,
                run, starts, faults, last, allocated, firstReady, refetch, tx>>

\* validator.Reset()
SharedOpen(e) ==
    /\ ex.pc[e] = "called"
    /\ ex' = [ex EXCEPT !.pc[e] = "running", !.total = 0]
    /\ SharedFrame

\* validator.AddExtractedSize(header.Size) for the next entry
SharedAdd(e) ==
    /\ ex.pc[e] = "running"
    /\ ex.pos[e] < Len(ex.archive[e])
    /\ LET add == AddExtractedSize(ex.total, ex.archive[e][ex.pos[e] + 1])
       IN  ex' = [ex EXCEPT !.total = add.total,
                            !.pos[e] = @ + 1,
                            !.err[e] = add.err,
                            !.pc[e] = IF add.err = "" THEN "running" ELSE "error"]
    /\ SharedFrame

\* validator.ValidateCompressionRatio(fi.Size(), validator.GetCurrentTotalSize())
SharedFinish(e) ==
    /\ ex.pc[e] = "running"
    /\ ex.pos[e] = Len(ex.archive[e])
    /\ LET err == ValidateCompressionRatio(ex.tarSize[e], ex.total)
       IN  ex' = [ex EXCEPT !.err[e] = err,
                            !.pc[e] = IF err = "" THEN "ok" ELSE "error"]
    /\ SharedFrame

SharedArchives ==
    UNION {[1..n -> {s \in EntrySizes : ValidateFileSize(s) = ""}] : n \in 0..MaxEntries}

InitShared ==
    /\ platform = "none"
    /\ maxRetries = 0
    /\ images = {}
    /\ image_seq = 0
    /\ next_device_id = 1
    /\ pool = EmptyPool
    /\ run = [k \in Keys |-> [state |-> StateIdle, retry |-> 0, resp |-> EmptyResponse]]
    /\ starts = 0
    /\ faults = 0
    /\ proc = NoProc
    /\ last = NoCall
    /\ allocated = {}
    /\ firstReady = [k \in Keys |-> <<>>]
    /\ refetch = {}
    /\ tx = NoTx
    /\ \E archive \in [Extractors -> SharedArchives],
          tarSize \in [Extractors -> TarSizes \ {0}] :
          ex = [archive |-> archive, tarSize |-> tarSize,
                pc |-> [e \in Extractors |-> "called"],
                pos |-> [e \in Extractors |-> 0],
                err |-> [e \in Extractors |-> ""],
                total |-> 0]

NextShared == \E e \in Extractors : SharedOpen(e) \/ SharedAdd(e) \/ SharedFinish(e)

SpecShared == InitShared /\ [][NextShared]_vars

\* the sum of the first n entries of extraction e's own archive
RECURSIVE OwnSum(_, _)
OwnSum(e, n) == IF n = 0 THEN 0 ELSE OwnSum(e, n - 1) + ex.archive[e][n]

\* C37: with two extractions under way against the machine's validator, each
\* one's total-size and compression-ratio decisions are those its own archive
\* calls for: an extraction goes on or succeeds only within the limits for its
\* own entries, and is refused only when its own entries exceed them.
C37_ExtractionsIndependent ==
    \A e \in Extractors :
        /\ ex.pc[e] = "running" => OwnSum(e, ex.pos[e]) <= MaxTotalSize
        /\ ex.pc[e] = "ok" =>
              ValidateCompressionRatio(ex.tarSize[e], OwnSum(e, ex.pos[e])) = ""
        /\ (ex.pc[e] = "error" /\ ex.err[e] = ErrTotalSize) =>
              OwnSum(e, ex.pos[e]) > MaxTotalSize
        /\ (ex.pc[e] = "error" /\ ex.err[e] # ErrTotalSize) =>
              ValidateCompressionRatio(ex.tarSize[e], OwnSum(e, ex.pos[e])) # ""

\* the link object s points out of the destination tree: to an absolute path
\* of the host, or above the root once resolved from the link's directory
LinkLeavesDest(s) ==
    \/ IsAbs(s.link)
    \/ Escapes(Rel(SubSeq(s.path, Len(Dest.parts) + 1, Len(s.path))), s.link)

\* C38: every regular file that ExtractTarball creates or truncates lies
\* inside the destination directory: none is opened through a symlink of the
\* archive, at its path or on the way to it, that points out of the tree.
C38_FilesStayInsideDest ==
    \A o \in ex.fs :
        o.kind = "file" =>
            ~\E s \in ex.fs :
                /\ s.kind = "symlink"
                /\ s.path = o.path \/ s.path \in Ancestors(o.path)
                /\ LinkLeavesDest(s)

\* C39: on the stub platform create_device is skipped entirely: no
\* activation consumes a device id (next_device_id stays what it was before
\* the first run) and the create_device handler calls no operation of the
\* device manager.
C39_StubSkipsCreateDevice ==
    platform = "stub" =>
        /\ next_device_id = 1
        /\ allocated = {}
        /\ last.handler = StateCreateDevice => (last.dm = {} /\ last.ids = {})

====
